---- MODULE Spec2Model ----
(***************************************************************************)
(* rQuery-Builder: the predicate-expression engine (Condition, Expression, *)
(* Where/Join grouping), the assignment clause and the Select / Update /   *)
(* Delete statement assemblers with their placeholder substitution pass.   *)
(*                                                                         *)
(* Text is a sequence of tokens whose concatenation is the Rust String.    *)
(* Every space is its own token " " and every question-mark character is   *)
(* its own token "?", so that trim() and the per-character substitution    *)
(* pass act on tokens exactly as they act on characters.  An empty String  *)
(* is the empty sequence.                                                  *)
(***************************************************************************)
EXTENDS Integers, Sequences, FiniteSets, TLC

\* ------------------------------------------------------------------ bounds
MaxConds == 2
MaxExprs == 2
MaxAssignments == 2
MaxCalls == 3
\* builder calls that take a clause (join, filter, set) on one statement
MaxClauseCalls == 2
\* items of one ORDER BY / GROUP BY list
MaxItems == 3

\* ------------------------------------------------------------ text helpers
Str(s) == IF s = "" THEN <<>> ELSE <<s>>

SP == " "

\* A TLA+ string cannot hold the backtick character (U+0060): wherever the
\* program's text has one, the model's text has the eight characters
\* <U+0060> in its place.
Backtick == "<U+0060>"
QM == "?"

RECURSIVE Concat(_)
Concat(parts) ==
    IF parts = <<>> THEN <<>> ELSE Head(parts) \o Concat(Tail(parts))

\* Vec<String>::join(sep)
RECURSIVE JoinText(_, _)
JoinText(parts, sep) ==
    IF parts = <<>> THEN <<>>
    ELSE IF Len(parts) = 1 THEN parts[1]
    ELSE parts[1] \o sep \o JoinText(Tail(parts), sep)

RECURSIVE TrimStart(_)
TrimStart(t) ==
    IF t # <<>> /\ Head(t) = SP THEN TrimStart(Tail(t)) ELSE t

RECURSIVE TrimEnd(_)
TrimEnd(t) ==
    IF t # <<>> /\ t[Len(t)] = SP THEN TrimEnd(SubSeq(t, 1, Len(t) - 1)) ELSE t

\* str::trim
Trim(t) == TrimEnd(TrimStart(t))

\* number of occurrences of token x in text t
CountTok(t, x) == Cardinality({i \in 1..Len(t) : t[i] = x})

CountQ(t) == CountTok(t, QM)

\* ------------------------------------------------------------------ values
\* serde_json::Value: three scalars and one array
ScalarValues == {"10", "20", "30"}
ArrayValues == {"[1,2]"}
IsArray(v) == v \in ArrayValues

\* Option<Logic> / Logic::fmt
LogicText(logic) ==
    CASE logic = "And" -> "AND"
      [] logic = "Or" -> "OR"
      [] OTHER -> ""

\* Operator::fmt
OperatorText(op) ==
    CASE op = "Eq" -> <<"=">>
      [] op = "Neq" -> <<"!=">>
      [] op = "Gt" -> <<">">>
      [] op = "Gte" -> <<">=">>
      [] op = "Lt" -> <<"<">>
      [] op = "Lte" -> <<"<=">>
      [] op = "Like" -> <<"LIKE">>
      [] op = "In" -> <<"IN">>
      [] op = "NotIn" -> <<"NOT", SP, "IN">>
      [] op = "IsNull" -> <<"IS", SP, "NULL">>
      [] op = "NotNull" -> <<"IS", SP, "NOT", SP, "NULL">>
      [] op = "Between" -> <<"BETWEEN">>
      [] op = "JsonbValue" -> <<"->">>
      [] op = "JsonbValueAsText" -> <<"->>">>
      [] op = "JsonbContains" -> <<"@>">>
      [] op = "JsonbContained" -> <<"<@">>
      [] op = "JsonbHasKey" -> <<QM>>
      [] op = "JsonbHasAnyKeys" -> <<QM, "|">>
      [] op = "JsonbHasAllKeys" -> <<QM, "&">>
      [] op = "JsonbConcatenate" -> <<"||">>
      [] op = "JsonbRemoveKey" -> <<"-">>
      [] op = "JsonbRemovePath" -> <<"#-">>
      [] op = "JsonbHasPath" -> <<"@", QM>>
      [] op = "JsonbPathExists" -> <<"@@">>

\* ---------------------------------------------------------- ConditionValue
\* Option<ConditionValue>: kind "None" is Option::None
NoValue == [kind |-> "None", a |-> "", b |-> ""]
Field(alias, field) == [kind |-> "Field", a |-> alias, b |-> field]
Single(v) == [kind |-> "Single", a |-> v, b |-> ""]
Range(v1, v2) == [kind |-> "Range", a |-> v1, b |-> v2]

\* ConditionBuilder::bind_value giving an array one marker per element
bind_value_PerElement(v) == IF IsArray(v) THEN <<"(", QM, ",", SP, QM, ")">> ELSE <<QM>>

\* ConditionBuilder::bind_value
bind_value(v) == IF IsArray(v) THEN <<"(", QM, ")">> ELSE <<QM>>

\* ConditionBuilder::bind (called only on Some(value))
bind(cv) ==
    CASE cv.kind = "Field" -> Str(cv.a) \o <<".">> \o Str(cv.b)
      [] cv.kind = "Single" -> bind_value(cv.a)
      [] cv.kind = "Range" -> bind_value(cv.a) \o <<SP, "AND", SP>> \o bind_value(cv.b)

\* ConditionBuilder { table_alias, field, operator, value, logic }
Cond(alias, field, op, value, logic) ==
    [table_alias |-> alias, field |-> field, operator |-> op,
     value |-> value, logic |-> logic]

TextErr(msg) == [ok |-> FALSE, text |-> <<>>, err |-> msg]
TextOk(t) == [ok |-> TRUE, text |-> t, err |-> ""]

\* ConditionBuilder::build without the check of the field
ConditionBuilder_build_NoFieldCheck(item) ==
    LET table_alias == IF item.table_alias # "None"
                       THEN Str(item.table_alias) \o <<".">> ELSE <<>>
        condition == table_alias \o Str(item.field) \o <<SP>> \o OperatorText(item.operator)
    IN  TextOk(condition)

\* ConditionBuilder::build
ConditionBuilder_build(item) ==
    LET table_alias == IF item.table_alias # "None"
                       THEN Str(item.table_alias) \o <<".">> ELSE <<>>
        field == Str(item.field)
        operator == OperatorText(item.operator)
        condition ==
            IF item.value.kind # "None"
               /\ item.operator # "IsNull" /\ item.operator # "NotNull"
            THEN table_alias \o field \o <<SP>> \o operator \o <<SP>> \o bind(item.value)
            ELSE table_alias \o field \o <<SP>> \o operator
    IN  IF item.field = "" THEN TextErr("field is empty")
        ELSE IF item.logic # "None"
             THEN TextOk(<<LogicText(item.logic), SP>> \o condition)
             ELSE TextOk(condition)

\* ------------------------------------------------------- ExpressionBuilder
ExprErr(msg) ==
    [ok |-> FALSE, condition |-> <<>>, logic |-> "None", values |-> <<>>, err |-> msg]

\* PushValues with the two pushes of the Range arm exchanged
PushValues_RangeSwapped(cv) ==
    CASE cv.kind = "Single" -> <<cv.a>>
      [] cv.kind = "Range" -> <<cv.b, cv.a>>
      [] OTHER -> <<>>

\* the values pushed for one Condition (the match on item.value)
PushValues(cv) ==
    CASE cv.kind = "Single" -> <<cv.a>>
      [] cv.kind = "Range" -> <<cv.a, cv.b>>
      [] OTHER -> <<>>

\* the for loop of ExpressionBuilder::build separating with a space even
\* before the first fragment
RECURSIVE ExpressionLoop_LeadingSpace(_, _, _)
ExpressionLoop_LeadingSpace(values, i, data) ==
    IF i > Len(values) THEN data
    ELSE LET item == values[i]
             built == ConditionBuilder_build(item)
         IN  IF ~built.ok THEN ExprErr(built.err)
             ELSE ExpressionLoop_LeadingSpace(values, i + 1,
                    [data EXCEPT
                       !.condition = data.condition \o <<SP>> \o built.text,
                       !.values = data.values \o PushValues(item.value)])

\* the for loop of ExpressionBuilder::build from item i on
RECURSIVE ExpressionLoop(_, _, _)
ExpressionLoop(values, i, data) ==
    IF i > Len(values) THEN data
    ELSE LET item == values[i]
             built == ConditionBuilder_build(item)
         IN  IF ~built.ok THEN ExprErr(built.err)
             ELSE ExpressionLoop(values, i + 1,
                    [data EXCEPT
                       !.condition = IF data.condition = <<>> THEN built.text
                                     ELSE data.condition \o <<SP>> \o built.text,
                       !.values = data.values \o PushValues(item.value)])

\* ExpressionBuilder::build
ExpressionBuilder_build(values, logic) ==
    LET data == ExpressionLoop(values, 1,
                  [ok |-> TRUE, condition |-> <<>>, logic |-> "None",
                   values |-> <<>>, err |-> ""])
    IN  IF data.ok THEN [data EXCEPT !.logic = logic] ELSE data

\* ------------------------------------------------- Option<String> / usize
None == [some |-> FALSE, v |-> <<>>]
Some(t) == [some |-> TRUE, v |-> t]
NoneN == [some |-> FALSE, v |-> 0]
SomeN(n) == [some |-> TRUE, v |-> n]

\* ------------------------------------------------------------ WhereBuilder
\* WhereBuilder::format grouping whatever do_grouping says
WhereBuilder_format_AlwaysGroup(expression, condition, do_grouping) ==
    Str(LogicText(condition)) \o <<SP, "(">> \o expression \o <<")">>

\* WhereBuilder::format
WhereBuilder_format(expression, condition, do_grouping) ==
    LET c == Str(LogicText(condition))
    IN  IF do_grouping THEN c \o <<SP, "(">> \o expression \o <<")">>
        ELSE expression

\* the for loop of WhereBuilder::build: the clauses pushed for items i..
RECURSIVE WhereClauses(_, _, _)
WhereClauses(values, i, do_grouping) ==
    IF i > Len(values) THEN <<>>
    ELSE <<WhereBuilder_format(values[i].condition, values[i].logic, do_grouping)>>
         \o WhereClauses(values, i + 1, do_grouping)

\* AppendValues putting each item's values in front of the earlier ones
RECURSIVE AppendValues_Reversed(_, _)
AppendValues_Reversed(values, i) ==
    IF i > Len(values) THEN <<>>
    ELSE AppendValues_Reversed(values, i + 1) \o values[i].values

\* data.values.append(&mut item.values) over the items i..
RECURSIVE AppendValues(_, _)
AppendValues(values, i) ==
    IF i > Len(values) THEN <<>>
    ELSE values[i].values \o AppendValues(values, i + 1)

\* WhereBuilder::build
WhereBuilder_build(values) ==
    LET do_grouping == Len(values) > 1
        clauses == WhereClauses(values, 1, do_grouping)
    IN  [statement |-> <<"WHERE", SP>> \o Trim(JoinText(clauses, <<SP>>)),
         values |-> AppendValues(values, 1)]

\* ------------------------------------------------------------- JoinBuilder
\* JoinKind::fmt
JoinKindText(kind) ==
    CASE kind = "Inner" -> "INNER"
      [] kind = "Left" -> "LEFT"
      [] kind = "Right" -> "RIGHT"
      [] kind = "Full" -> "FULL"
      [] kind = "Cross" -> "CROSS"

\* JoinBuilder::format prefixing the connective when it does not group
JoinBuilder_format_LonePrefix(condition, logic, do_grouping) ==
    LET l == Str(LogicText(logic))
    IN  IF do_grouping THEN l \o <<SP, "(">> \o condition \o <<")">>
        ELSE IF l # <<>> THEN l \o <<SP>> \o condition ELSE condition

\* JoinBuilder::format
JoinBuilder_format(condition, logic, do_grouping) ==
    LET l == Str(LogicText(logic))
    IN  IF do_grouping THEN l \o <<SP, "(">> \o condition \o <<")">>
        ELSE condition

\* the for loop of JoinBuilder::build: the expressions pushed for items i..
RECURSIVE JoinExpressions(_, _, _)
JoinExpressions(values, i, do_grouping) ==
    IF i > Len(values) THEN <<>>
    ELSE <<JoinBuilder_format(values[i].condition, values[i].logic, do_grouping)>>
         \o JoinExpressions(values, i + 1, do_grouping)

\* JoinBuilder::build
JoinBuilder_build(kind, table, table_alias, values) ==
    LET do_grouping == Len(values) > 1
        expressions == JoinExpressions(values, 1, do_grouping)
    IN  [statement |-> <<JoinKindText(kind), SP, "JOIN", SP>> \o Str(table)
                       \o <<SP, "as", SP>> \o Str(table_alias) \o <<SP, "ON", SP>>
                       \o Trim(JoinText(expressions, <<SP>>)),
         values |-> AppendValues(values, 1)]

\* ------------------------------------------------------------ placeholders
\* "${counter}"
Dollar(counter) == "$" \o ToString(counter)

\* NumberMarkers formatting the counter before incrementing it
NumberMarkers_PostIncrement(t, counter) ==
    [i \in 1..Len(t) |->
        IF t[i] = QM THEN Dollar(counter + CountQ(SubSeq(t, 1, i - 1))) ELSE t[i]]

\* the chars().map(..) closure of SelectBuilder::build, DollarSequential arm,
\* collected: the closure increments its captured counter at every "?" it
\* meets, so at the i-th char the counter is its start value plus the number
\* of "?" among the chars 1..i
NumberMarkers(t, counter) ==
    [i \in 1..Len(t) |->
        IF t[i] = QM THEN Dollar(counter + CountQ(SubSeq(t, 1, i))) ELSE t[i]]

\* MapMarkers leaving alone a "?" that is part of an operator symbol
MapMarkers_SkipOperator(t, kind, value_counter) ==
    [i \in 1..Len(t) |->
        IF t[i] = QM /\ ~(i < Len(t) /\ t[i + 1] \in {"|", "&"}) /\ ~(i > 1 /\ t[i - 1] = "@")
        THEN IF kind = "QuestionMark" THEN QM
             ELSE Dollar(value_counter + CountQ(SubSeq(t, 1, i)))
        ELSE t[i]]

\* MapMarkers numbering the first "?" only
MapMarkers_FirstOnly(t, kind, value_counter) ==
    [i \in 1..Len(t) |->
        IF t[i] = QM /\ CountQ(SubSeq(t, 1, i)) = 1
        THEN IF kind = "QuestionMark" THEN QM ELSE Dollar(value_counter + 1)
        ELSE t[i]]

\* the chars().map(..) closure of UpdateBuilder::build / DeleteBuilder::build,
\* collected: value_counter is incremented at every "?" under
\* DollarSequential only
MapMarkers(t, kind, value_counter) ==
    [i \in 1..Len(t) |->
        IF t[i] = QM
        THEN IF kind = "QuestionMark" THEN QM
             ELSE Dollar(value_counter + CountQ(SubSeq(t, 1, i)))
        ELSE t[i]]

\* ----------------------------------------------------------- SelectBuilder
\* SelectBuilder::new
SelectBuilder_new(placeholder) ==
    [distinct |-> FALSE, table |-> <<>>, fields |-> <<>>,
     limit |-> NoneN, offset |-> NoneN, values |-> <<>>,
     filter_statement |-> None, join_statement |-> None,
     group_by_statement |-> None, order_by_statement |-> None,
     placeholder_kind |-> placeholder]

\* SelectBuilder::distinct
SelectBuilder_distinct(self) == [self EXCEPT !.distinct = TRUE]

\* SelectBuilder::table
SelectBuilder_table(self, table, table_alias) ==
    [self EXCEPT !.table = Str(table) \o <<SP, "as", SP>> \o Str(table_alias)]

\* SelectBuilder::columns
SelectBuilder_columns(self, table_alias, values) ==
    LET fields == IF values = <<>> THEN <<Str(table_alias) \o <<".*">>>>
                  ELSE [i \in 1..Len(values) |->
                          Str(table_alias) \o <<".">> \o Str(values[i])]
    IN  [self EXCEPT !.fields = self.fields \o fields]

\* SelectBuilder::columns_raw
SelectBuilder_columns_raw(self, values) ==
    LET fields == IF values = <<>> THEN <<<<"*">>>>
                  ELSE [i \in 1..Len(values) |-> Str(values[i])]
    IN  [self EXCEPT !.fields = self.fields \o fields]

\* SelectBuilder::join putting the new clause and its values first
SelectBuilder_join_Prepend(self, kind, table, table_alias, values) ==
    IF values # <<>>
    THEN LET item == JoinBuilder_build(kind, table, table_alias, values)
         IN  [self EXCEPT
                !.values = item.values \o self.values,
                !.join_statement =
                    IF self.join_statement.some
                    THEN Some(item.statement \o <<SP>> \o self.join_statement.v)
                    ELSE Some(item.statement)]
    ELSE self

\* SelectBuilder::join
SelectBuilder_join(self, kind, table, table_alias, values) ==
    IF values # <<>>
    THEN LET item == JoinBuilder_build(kind, table, table_alias, values)
         IN  [self EXCEPT
                !.values = self.values \o item.values,
                !.join_statement =
                    IF self.join_statement.some
                    THEN Some(self.join_statement.v \o <<SP>> \o item.statement)
                    ELSE Some(item.statement)]
    ELSE self

\* SelectBuilder::filter
SelectBuilder_filter(self, values) ==
    IF values # <<>>
    THEN LET result == WhereBuilder_build(values)
         IN  [self EXCEPT
                !.filter_statement = Some(result.statement),
                !.values = self.values \o result.values]
    ELSE self

\* SelectBuilder::limit
SelectBuilder_limit(self, value) == [self EXCEPT !.limit = SomeN(value)]

\* SelectBuilder::offset
SelectBuilder_offset(self, value) == [self EXCEPT !.offset = SomeN(value)]

\* SelectBuilder::get_values
SelectBuilder_get_values(self) == self.values

\* the statement of SelectBuilder::build with the ORDER BY text put before
\* the GROUP BY text
SelectBuilder_statement_OrderFirst(self) ==
    LET fields == JoinText(self.fields, <<",", SP>>)
        s0 == IF self.distinct
              THEN <<"SELECT", SP, "DISTINCT", SP>> \o fields \o <<SP, "FROM", SP>> \o self.table
              ELSE <<"SELECT", SP>> \o fields \o <<SP, "FROM", SP>> \o self.table
        s1 == IF self.join_statement.some THEN s0 \o <<SP>> \o self.join_statement.v ELSE s0
        s2 == IF self.filter_statement.some THEN s1 \o <<SP>> \o self.filter_statement.v ELSE s1
        s3 == IF self.order_by_statement.some THEN s2 \o <<SP>> \o self.order_by_statement.v ELSE s2
        s4 == IF self.group_by_statement.some THEN s3 \o <<SP>> \o self.group_by_statement.v ELSE s3
        s5 == IF self.limit.some THEN s4 \o <<SP, "LIMIT", SP, ToString(self.limit.v)>> ELSE s4
        s6 == IF self.offset.some THEN s5 \o <<SP, "OFFSET", SP, ToString(self.offset.v)>> ELSE s5
    IN  s6

\* the statement SelectBuilder::build assembles before the placeholder match
SelectBuilder_statement(self) ==
    LET fields == JoinText(self.fields, <<",", SP>>)
        s0 == IF self.distinct
              THEN <<"SELECT", SP, "DISTINCT", SP>> \o fields \o <<SP, "FROM", SP>> \o self.table
              ELSE <<"SELECT", SP>> \o fields \o <<SP, "FROM", SP>> \o self.table
        s1 == IF self.join_statement.some THEN s0 \o <<SP>> \o self.join_statement.v ELSE s0
        s2 == IF self.filter_statement.some THEN s1 \o <<SP>> \o self.filter_statement.v ELSE s1
        s3 == IF self.group_by_statement.some THEN s2 \o <<SP>> \o self.group_by_statement.v ELSE s2
        s4 == IF self.order_by_statement.some THEN s3 \o <<SP>> \o self.order_by_statement.v ELSE s3
        s5 == IF self.limit.some THEN s4 \o <<SP, "LIMIT", SP, ToString(self.limit.v)>> ELSE s4
        s6 == IF self.offset.some THEN s5 \o <<SP, "OFFSET", SP, ToString(self.offset.v)>> ELSE s5
    IN  s6

\* SelectBuilder::build
SelectBuilder_build(self) ==
    LET statement == SelectBuilder_statement(self)
    IN  IF self.placeholder_kind = "QuestionMark" THEN TextOk(Trim(statement))
        ELSE TextOk(Trim(NumberMarkers(statement, 0)))

\* -------------------------------------------------------------- SetBuilder
\* SetValue::Value / SetValue::Query
SetValue_Value(v) == [kind |-> "Value", v |-> v, q |-> SelectBuilder_new("QuestionMark")]
SetValue_Query(q) == [kind |-> "Query", v |-> "", q |-> q]

\* SetFieldUpdate { field, value }
SetFieldUpdate(field, value) == [field |-> field, value |-> value]

SetErr(msg) == [ok |-> FALSE, statement |-> <<>>, values |-> <<>>, err |-> msg]

\* SetValue::Query arm of the loop body once the nested Select is built:
\* its error is returned, else its text goes in parentheses and its values
\* are appended
SetQuery(acc, item, result) ==
    IF ~result.ok
    THEN [acc EXCEPT !.ok = FALSE, !.err = result.err]
    ELSE [acc EXCEPT
            !.expressions = Append(acc.expressions,
                Str(item.field) \o <<SP, "=", SP, "(">> \o result.text \o <<")">>),
            !.values = acc.values \o SelectBuilder_get_values(item.value.q)]

\* one pass of the for loop of SetBuilder::build without the check of the
\* nested builder's placeholder kind
SetItem_AnyNotation(acc, item) ==
    IF item.value.kind = "Value"
    THEN [acc EXCEPT
            !.expressions = Append(acc.expressions,
                                   Str(item.field) \o <<SP, "=", SP, QM>>),
            !.values = Append(acc.values, item.value.v)]
    ELSE SetQuery(acc, item, SelectBuilder_build(item.value.q))

\* one pass of the for loop of SetBuilder::build; acc holds the local
\* vectors expressions and values
SetItem(acc, item) ==
    IF item.value.kind = "Value"
    THEN [acc EXCEPT
            !.expressions = Append(acc.expressions,
                                   Str(item.field) \o <<SP, "=", SP, QM>>),
            !.values = Append(acc.values, item.value.v)]
    ELSE IF item.value.q.placeholder_kind # "QuestionMark"
         THEN [acc EXCEPT
                 !.ok = FALSE,
                 !.err = "select builder should be using the question mark placeholder kind"]
         ELSE SetQuery(acc, item, SelectBuilder_build(item.value.q))

\* the for loop of SetBuilder::build from item i on, left at the first error
RECURSIVE SetLoop(_, _, _)
SetLoop(items, i, acc) ==
    IF i > Len(items) \/ ~acc.ok THEN acc
    ELSE SetLoop(items, i + 1, SetItem(acc, items[i]))

\* the value SetBuilder::build returns after its loop
SetResult(acc) ==
    IF ~acc.ok THEN SetErr(acc.err)
    ELSE [ok |-> TRUE,
          statement |-> <<"SET", SP>> \o JoinText(acc.expressions, <<",", SP>>),
          values |-> acc.values, err |-> ""]

\* SetBuilder::build
SetBuilder_build(items) ==
    SetResult(SetLoop(items, 1,
                [ok |-> TRUE, expressions |-> <<>>, values |-> <<>>, err |-> ""]))

\* ----------------------------------------------------------- UpdateBuilder
\* UpdateBuilder::new
UpdateBuilder_new(placeholder) ==
    [table |-> <<>>, values |-> <<>>, set_statement |-> <<>>,
     filter_statement |-> None, returning_statement |-> None,
     placeholder_kind |-> placeholder]

\* UpdateBuilder::table
UpdateBuilder_table(self, table) == [self EXCEPT !.table = Str(table)]

\* UpdateBuilder::filter
UpdateBuilder_filter(self, values) ==
    IF values # <<>>
    THEN LET result == WhereBuilder_build(values)
         IN  [self EXCEPT
                !.filter_statement = Some(result.statement),
                !.values = self.values \o result.values]
    ELSE self

\* the error of UpdateBuilder::set on a builder that has a SET text; the
\* program's message has a backtick on either side of .set()
SetOnceError == Backtick \o ".set()" \o Backtick \o " can only be calld once"

\* UpdateBuilder::set once SetBuilder::build has returned builder, storing
\* a SET text even when builder is an error
UpdateBuilder_set_builder_MarkOnError(self, builder) ==
    IF ~builder.ok
    THEN [ok |-> FALSE, self |-> [self EXCEPT !.set_statement = <<"SET", SP>>],
          err |-> builder.err]
    ELSE [ok |-> TRUE,
          self |-> [self EXCEPT
                      !.set_statement = builder.statement,
                      !.values = self.values \o builder.values],
          err |-> ""]

\* UpdateBuilder::set once SetBuilder::build has returned builder
UpdateBuilder_set_builder(self, builder) ==
    IF ~builder.ok THEN [ok |-> FALSE, self |-> self, err |-> builder.err]
    ELSE [ok |-> TRUE,
          self |-> [self EXCEPT
                      !.set_statement = builder.statement,
                      !.values = self.values \o builder.values],
          err |-> ""]

\* UpdateBuilder::set without the check of set_statement
UpdateBuilder_set_NoGuard(self, values) ==
    UpdateBuilder_set_builder(self, SetBuilder_build(values))

\* UpdateBuilder::set: ok tells Ok(self) from Err, self is the builder after
\* the call
UpdateBuilder_set(self, values) ==
    IF self.set_statement # <<>>
    THEN [ok |-> FALSE, self |-> self, err |-> SetOnceError]
    ELSE UpdateBuilder_set_builder(self, SetBuilder_build(values))

\* UpdateBuilder::get_values
UpdateBuilder_get_values(self) == self.values

\* the column list of returning(): values.join(", ")
ReturningText(values) ==
    <<"RETURNING", SP>> \o JoinText([i \in 1..Len(values) |-> Str(values[i])], <<",", SP>>)

\* UpdateBuilder::returning
UpdateBuilder_returning(self, values) ==
    IF values # <<>>
    THEN [self EXCEPT !.returning_statement = Some(ReturningText(values))]
    ELSE self

\* the statement UpdateBuilder::build assembles before the substitution
UpdateBuilder_statement(self) ==
    LET s0 == <<"UPDATE", SP>> \o self.table \o <<SP>> \o self.set_statement
        s1 == IF self.filter_statement.some THEN s0 \o <<SP>> \o self.filter_statement.v ELSE s0
        s2 == IF self.returning_statement.some
              THEN s1 \o <<SP>> \o self.returning_statement.v ELSE s1
    IN  s2

\* UpdateBuilder::build
UpdateBuilder_build(self) ==
    TextOk(Trim(MapMarkers(UpdateBuilder_statement(self), self.placeholder_kind, 0)))

\* ----------------------------------------------------------- DeleteBuilder
\* DeleteBuilder::new
DeleteBuilder_new(placeholder) ==
    [table |-> <<>>, values |-> <<>>, using_table |-> None,
     filter_statement |-> None, returning_statement |-> None,
     placeholder_kind |-> placeholder]

\* DeleteBuilder::table; table_alias "None" is Option::None
DeleteBuilder_table(self, table, table_alias) ==
    [self EXCEPT !.table = IF table_alias # "None"
                           THEN Str(table) \o <<SP, "as", SP>> \o Str(table_alias)
                           ELSE Str(table)]

\* DeleteBuilder::using
DeleteBuilder_using(self, table, table_alias) ==
    [self EXCEPT !.using_table = IF table_alias # "None"
                                 THEN Some(Str(table) \o <<SP, "as", SP>> \o Str(table_alias))
                                 ELSE Some(Str(table))]

\* DeleteBuilder::filter
DeleteBuilder_filter(self, values) ==
    IF values # <<>>
    THEN LET result == WhereBuilder_build(values)
         IN  [self EXCEPT
                !.filter_statement = Some(result.statement),
                !.values = self.values \o result.values]
    ELSE self

\* DeleteBuilder::get_values
DeleteBuilder_get_values(self) == self.values

\* DeleteBuilder::returning
DeleteBuilder_returning(self, values) ==
    IF values # <<>>
    THEN [self EXCEPT !.returning_statement = Some(ReturningText(values))]
    ELSE self

\* the statement DeleteBuilder::build assembles before the substitution
DeleteBuilder_statement(self) ==
    LET s0 == <<"DELETE", SP, "FROM", SP>> \o self.table
        s1 == IF self.using_table.some THEN s0 \o <<SP>> \o self.using_table.v ELSE s0
        s2 == IF self.filter_statement.some THEN s1 \o <<SP>> \o self.filter_statement.v ELSE s1
        s3 == IF self.returning_statement.some
              THEN s2 \o <<SP>> \o self.returning_statement.v ELSE s2
    IN  s3

\* DeleteBuilder::build
DeleteBuilder_build(self) ==
    TextOk(Trim(MapMarkers(DeleteBuilder_statement(self), self.placeholder_kind, 0)))

\* ----------------------------------------------------------- InsertBuilder
\* InsertBuilder::new
InsertBuilder_new(placeholder) ==
    [table |-> <<>>, fields |-> <<>>, values |-> <<>>,
     returning_statement |-> None, placeholder_kind |-> placeholder]

\* InsertBuilder::table
InsertBuilder_table(self, table) == [self EXCEPT !.table = Str(table)]

\* InsertBuilder::columns
InsertBuilder_columns(self, values) == [self EXCEPT !.fields = values]

\* InsertBuilder::values keeping the tuple first in the list
InsertBuilder_values_Prepend(self, values) ==
    IF Len(self.fields) # Len(values)
    THEN [ok |-> FALSE, self |-> self, err |-> "mistched number of fields and values"]
    ELSE [ok |-> TRUE, self |-> [self EXCEPT !.values = <<values>> \o @], err |-> ""]

\* InsertBuilder::values: ok tells Ok(self) from Err, self is the builder
\* after the call
InsertBuilder_values(self, values) ==
    IF Len(self.fields) # Len(values)
    THEN [ok |-> FALSE, self |-> self, err |-> "mistched number of fields and values"]
    ELSE [ok |-> TRUE, self |-> [self EXCEPT !.values = Append(@, values)], err |-> ""]

\* InsertBuilder::get_values
InsertBuilder_get_values(self) == self.values

\* InsertBuilder::returning
InsertBuilder_returning(self, values) ==
    IF values # <<>>
    THEN [self EXCEPT !.returning_statement = Some(ReturningText(values))]
    ELSE self

\* the inner closure of InsertBuilder::build at item j of tuple r:
\* value_counter was incremented once for every item met before, this one
\* included
InsertPlaceholder(self, r, j) ==
    IF self.placeholder_kind = "QuestionMark" THEN <<QM>>
    ELSE <<Dollar(Len(Concat(SubSeq(self.values, 1, r - 1))) + j)>>

\* the outer closure of InsertBuilder::build at tuple r
InsertTuple(self, r) ==
    <<"(">>
        \o JoinText([j \in 1..Len(self.values[r]) |-> InsertPlaceholder(self, r, j)],
                    <<",", SP>>)
        \o <<")">>

\* the statement InsertBuilder::build formats
InsertBuilder_statement(self) ==
    <<"INSERT", SP, "INTO", SP>> \o self.table
        \o <<"(">>
        \o JoinText([i \in 1..Len(self.fields) |-> Str(self.fields[i])], <<",", SP>>)
        \o <<")", SP, "VALUES", SP>>
        \o JoinText([r \in 1..Len(self.values) |-> InsertTuple(self, r)], <<",", SP>>)
        \o <<SP>>
        \o (IF self.returning_statement.some THEN self.returning_statement.v ELSE <<>>)

\* InsertBuilder::build
InsertBuilder_build(self) == TextOk(Trim(InsertBuilder_statement(self)))

\* ---------------------------------------------------------- OrderByBuilder
\* Sequence::fmt
SequenceText(sequence) == IF sequence = "Asc" THEN "ASC" ELSE "DESC"

\* OrderByItem { table_alias, field, sequence }
OrderByItem(alias, field, sequence) ==
    [table_alias |-> alias, field |-> field, sequence |-> sequence]

\* the fragment the loop of OrderByBuilder::build formats for item
OrderByFragment(item) ==
    (IF item.table_alias # "None" THEN Str(item.table_alias) \o <<".">> ELSE <<>>)
        \o Str(item.field) \o <<SP, SequenceText(item.sequence)>>

\* vec.contains(value)
VecContains(vec, value) == \E i \in 1..Len(vec) : vec[i] = value

\* one pass of the loop of OrderByBuilder::build pushing every fragment
OrderByStep_PushAlways(acc, item) ==
    IF item.field = "" THEN [acc EXCEPT !.ok = FALSE, !.err = "order by field is empty"]
    ELSE [acc EXCEPT !.list = Append(@, OrderByFragment(item))]

\* one pass of the loop of OrderByBuilder::build; acc.list is the local
\* vector order_by
OrderByStep(acc, item) ==
    IF item.field = "" THEN [acc EXCEPT !.ok = FALSE, !.err = "order by field is empty"]
    ELSE IF ~VecContains(acc.list, OrderByFragment(item))
         THEN [acc EXCEPT !.list = Append(@, OrderByFragment(item))]
         ELSE acc

\* the loop of OrderByBuilder::build from item i on, left at the first error
RECURSIVE OrderByLoop(_, _, _)
OrderByLoop(values, i, acc) ==
    IF i > Len(values) \/ ~acc.ok THEN acc
    ELSE OrderByLoop(values, i + 1, OrderByStep(acc, values[i]))

\* what OrderByBuilder::build returns after its loop
OrderByResult(acc) ==
    IF ~acc.ok THEN TextErr(acc.err)
    ELSE TextOk(<<"ORDER", SP, "BY", SP>> \o Trim(JoinText(acc.list, <<",", SP>>)))

\* OrderByBuilder::build accepting the empty list
OrderByBuilder_build_AcceptEmpty(values) ==
    OrderByResult(OrderByLoop(values, 1, [ok |-> TRUE, list |-> <<>>, err |-> ""]))

\* OrderByBuilder::build
OrderByBuilder_build(values) ==
    IF values = <<>> THEN TextErr("order by item is empty")
    ELSE OrderByResult(OrderByLoop(values, 1, [ok |-> TRUE, list |-> <<>>, err |-> ""]))

\* ---------------------------------------------------------- GroupByBuilder
\* GroupByItem { table_alias, field }
GroupByItem(alias, field) == [table_alias |-> alias, field |-> field]

\* the fragment the loop of GroupByBuilder::build formats for item
GroupByFragment(item) ==
    (IF item.table_alias # "None" THEN Str(item.table_alias) \o <<".">> ELSE <<>>)
        \o Str(item.field)

\* one pass of the loop of GroupByBuilder::build; acc.list is the local
\* vector group_by
GroupByStep(acc, item) ==
    IF item.field = "" THEN [acc EXCEPT !.ok = FALSE, !.err = "group by field is empty"]
    ELSE IF ~VecContains(acc.list, GroupByFragment(item))
         THEN [acc EXCEPT !.list = Append(@, GroupByFragment(item))]
         ELSE acc

\* the loop of GroupByBuilder::build from item i on, left at the first error
RECURSIVE GroupByLoop(_, _, _)
GroupByLoop(values, i, acc) ==
    IF i > Len(values) \/ ~acc.ok THEN acc
    ELSE GroupByLoop(values, i + 1, GroupByStep(acc, values[i]))

\* what GroupByBuilder::build returns after its loop
GroupByResult(acc) ==
    IF ~acc.ok THEN TextErr(acc.err)
    ELSE TextOk(<<"GROUP", SP, "BY", SP>> \o Trim(JoinText(acc.list, <<",", SP>>)))

\* GroupByBuilder::build
GroupByBuilder_build(values) ==
    IF values = <<>> THEN TextErr("group by item is empty")
    ELSE GroupByResult(GroupByLoop(values, 1, [ok |-> TRUE, list |-> <<>>, err |-> ""]))

\* ------------------------------------- SelectBuilder: order_by, group_by
\* SelectBuilder::order_by once OrderByBuilder::build has returned built,
\* forgetting the earlier ORDER BY text when built is an error
SelectBuilder_order_by_built_ClearOnError(self, built) ==
    IF ~built.ok
    THEN [ok |-> FALSE, self |-> [self EXCEPT !.order_by_statement = None], err |-> built.err]
    ELSE [ok |-> TRUE, self |-> [self EXCEPT !.order_by_statement = Some(built.text)],
          err |-> ""]

\* SelectBuilder::order_by once OrderByBuilder::build has returned built:
\* the ? operator returns the error before the assignment
SelectBuilder_order_by_built(self, built) ==
    IF ~built.ok THEN [ok |-> FALSE, self |-> self, err |-> built.err]
    ELSE [ok |-> TRUE, self |-> [self EXCEPT !.order_by_statement = Some(built.text)],
          err |-> ""]

\* SelectBuilder::order_by: ok tells Ok(self) from Err, self is the builder
\* after the call
SelectBuilder_order_by(self, values) ==
    IF values # <<>> THEN SelectBuilder_order_by_built(self, OrderByBuilder_build(values))
    ELSE [ok |-> TRUE, self |-> self, err |-> ""]

\* SelectBuilder::group_by once GroupByBuilder::build has returned built
SelectBuilder_group_by_built(self, built) ==
    IF ~built.ok THEN [ok |-> FALSE, self |-> self, err |-> built.err]
    ELSE [ok |-> TRUE, self |-> [self EXCEPT !.group_by_statement = Some(built.text)],
          err |-> ""]

\* SelectBuilder::group_by
SelectBuilder_group_by(self, values) ==
    IF values # <<>> THEN SelectBuilder_group_by_built(self, GroupByBuilder_build(values))
    ELSE [ok |-> TRUE, self |-> self, err |-> ""]

\* ------------------------------------------------------------ input pools
Logics == {"None", "And", "Or"}

\* Conditions covering every ConditionValue variant, an array literal, the
\* null checks with and without a value, a JSON operator whose text holds
\* the marker character, and an empty field
CondPool ==
    { Cond("t", "a", "Eq", Single("10"), "None"),
      Cond("None", "b", "Between", Range("20", "30"), "And"),
      Cond("t", "c", "Eq", Field("p", "d"), "Or"),
      Cond("None", "e", "In", Single("[1,2]"), "And"),
      Cond("t", "f", "IsNull", NoValue, "Or"),
      Cond("t", "f", "IsNull", Single("30"), "Or"),
      Cond("None", "g", "NotNull", Range("10", "20"), "None"),
      Cond("t", "h", "JsonbHasKey", Single("20"), "And"),
      Cond("t", "", "Eq", Single("10"), "None") }

\* the Condition lists of length 1..n over a pool
RECURSIVE ListsUpTo(_, _)
ListsUpTo(pool, n) ==
    IF n = 0 THEN {<<>>}
    ELSE LET shorter == ListsUpTo(pool, n - 1)
         IN  shorter \cup {Append(l, x) : l \in shorter, x \in pool}

CondLists == ListsUpTo(CondPool, MaxConds) \ {<<>>}

\* Expression inputs (conditions, trailing connective) for the grouping
\* combinators: all of them build successfully
GroupInputs ==
    { [conds |-> cs, logic |-> l] :
        cs \in { <<Cond("t", "a", "Eq", Single("10"), "None")>>,
                 <<Cond("t", "a", "Eq", Single("10"), "None"),
                   Cond("None", "b", "Between", Range("20", "30"), "And")>>,
                 <<Cond("t", "c", "Eq", Field("p", "d"), "None")>>,
                 <<Cond("None", "e", "In", Single("[1,2]"), "None")>>,
                 <<Cond("t", "f", "IsNull", Single("30"), "Or")>> },
        l \in Logics }

BuildInput(x) == ExpressionBuilder_build(x.conds, x.logic)

BuildInputs(xs) == [i \in 1..Len(xs) |-> BuildInput(xs[i])]

GroupExprLists ==
    { BuildInputs(xs) : xs \in ListsUpTo(GroupInputs, MaxExprs) }

JoinKinds == {"Inner", "Left"}

\* --------------------------------------------------------------- the state
VARIABLES
    conds, logic,     \* arguments of ExpressionBuilder::build
    expr,             \* what ExpressionBuilder::build returned
    exprs, jkind,     \* arguments of WhereBuilder::build / JoinBuilder::build
    where_clause,     \* what WhereBuilder::build returned
    join_clause,      \* what JoinBuilder::build returned
    stmt,             \* the statement builder in use: select, update, delete,
                      \* insert
    sel, upd, del,    \* the SelectBuilder, UpdateBuilder and DeleteBuilder
    hist,             \* how many builder calls, filter() and set() calls were made,
                      \* whether set() succeeded before any filter(), whether a
                      \* SelectBuilder call came after one for a later clause,
                      \* and the error the last call returned
    ghost,            \* per text slot, the values its markers stand for; the
                      \* argument of the last InsertBuilder::values call
    out,              \* what the last build() returned
    ins,              \* the InsertBuilder
    items,            \* argument of SetBuilder::build
    set_builder,      \* what SetBuilder::build returned
    order_items,      \* argument of OrderByBuilder::build
    order_by,         \* what OrderByBuilder::build returned
    group_items,      \* argument of GroupByBuilder::build
    group_by          \* what GroupByBuilder::build returned

exprVars == <<conds, logic, expr>>
groupVars == <<exprs, jkind, where_clause, join_clause>>
stmtVars == <<stmt, sel, upd, del, ins, hist, ghost, out>>
setVars == <<items, set_builder>>
clauseVars == <<order_items, order_by, group_items, group_by>>
vars == <<conds, logic, expr, exprs, jkind, where_clause, join_clause,
          stmt, sel, upd, del, ins, hist, ghost, out,
          items, set_builder, order_items, order_by, group_items, group_by>>

NotBuilt == ExprErr("not built")
NoClause == [statement |-> <<>>, values |-> <<>>]
NoOut == TextErr("not built")
NoCalls == [calls |-> 0, clauses |-> 0, filter |-> 0, set |-> 0, values |-> 0,
            setok |-> 0, setfirst |-> FALSE, late |-> FALSE,
            err |-> ""]
NoGhost == [join |-> <<>>, filter |-> <<>>, set |-> <<>>, plain |-> TRUE, arg |-> <<>>]

\* the variables of the scenarios that are not running
IdleExpr == conds = <<>> /\ logic = "None" /\ expr = NotBuilt
IdleGroup ==
    /\ exprs = <<>> /\ jkind = "Inner"
    /\ where_clause = NoClause /\ join_clause = NoClause
IdleSet == items = <<>> /\ set_builder = SetErr("not built")
IdleClause ==
    /\ order_items = <<>> /\ order_by = NoOut
    /\ group_items = <<>> /\ group_by = NoOut
IdleStmt ==
    /\ stmt = "none"
    /\ ins = InsertBuilder_new("QuestionMark")
    /\ sel = SelectBuilder_new("QuestionMark")
    /\ upd = UpdateBuilder_new("QuestionMark")
    /\ del = DeleteBuilder_new("QuestionMark")
    /\ hist = NoCalls /\ ghost = NoGhost /\ out = NoOut

\* ------------------------------------------- specification: one Expression
InitExpr ==
    /\ conds \in CondLists
    /\ logic \in Logics
    /\ expr = NotBuilt
    /\ IdleGroup /\ IdleStmt /\ IdleSet /\ IdleClause

BuildExpression ==
    /\ expr = NotBuilt
    /\ expr' = ExpressionBuilder_build(conds, logic)
    /\ UNCHANGED <<conds, logic, groupVars, setVars, clauseVars, stmtVars>>

NextExpr == BuildExpression

SpecExpr == InitExpr /\ [][NextExpr]_vars

\* --------------------------------------- specification: one grouped clause
InitGroup ==
    /\ exprs \in GroupExprLists
    /\ jkind \in JoinKinds
    /\ where_clause = NoClause /\ join_clause = NoClause
    /\ IdleExpr /\ IdleStmt /\ IdleSet /\ IdleClause

BuildWhere ==
    /\ where_clause = NoClause
    /\ where_clause' = WhereBuilder_build(exprs)
    /\ UNCHANGED <<exprVars, exprs, jkind, join_clause, setVars, clauseVars, stmtVars>>

BuildJoin ==
    /\ join_clause = NoClause
    /\ join_clause' = JoinBuilder_build(jkind, "products", "p", exprs)
    /\ UNCHANGED <<exprVars, exprs, jkind, where_clause, setVars, clauseVars, stmtVars>>

NextGroup == BuildWhere \/ BuildJoin

SpecGroup == InitGroup /\ [][NextGroup]_vars

\* ----------------------------------------- specification: one SET clause
\* a Select without values, SELECT  FROM users as u
PlainSelect(placeholder) == SelectBuilder_table(SelectBuilder_new(placeholder), "users", "u")

\* a Select with one value, SELECT u.email FROM users as u WHERE u.email = ?
NestedSelect(placeholder) ==
    SelectBuilder_filter(
        SelectBuilder_columns(PlainSelect(placeholder), "u", <<"email">>),
        <<ExpressionBuilder_build(
            <<Cond("u", "email", "Eq", Single("30"), "None")>>, "None")>>)

\* assignments of a plain value and of a nested Select of either notation
SetItemPool ==
    { SetFieldUpdate("name", SetValue_Value("10")),
      SetFieldUpdate("email", SetValue_Value("20")),
      SetFieldUpdate("id", SetValue_Value("30")),
      SetFieldUpdate("email", SetValue_Query(NestedSelect("QuestionMark"))),
      SetFieldUpdate("email", SetValue_Query(NestedSelect("DollarSequential"))),
      SetFieldUpdate("name", SetValue_Query(PlainSelect("QuestionMark"))),
      SetFieldUpdate("name", SetValue_Query(PlainSelect("DollarSequential"))) }

SetNotBuilt == SetErr("not built")

InitSet ==
    /\ items \in ListsUpTo(SetItemPool, MaxAssignments)
    /\ set_builder = SetNotBuilt
    /\ IdleExpr /\ IdleGroup /\ IdleStmt /\ IdleClause

BuildSet ==
    /\ set_builder = SetNotBuilt
    /\ set_builder' = SetBuilder_build(items)
    /\ UNCHANGED <<exprVars, groupVars, clauseVars, stmtVars, items>>

NextSet == BuildSet

SpecSet == InitSet /\ [][NextSet]_vars

\* SetBuilder::build has returned
SetBuilt == set_builder # SetNotBuilt

\* some assignment of xs holds a nested Select of another notation than
\* QuestionMark
WrongNotation(xs) ==
    \E i \in 1..Len(xs) :
        xs[i].value.kind = "Query" /\ xs[i].value.q.placeholder_kind # "QuestionMark"

\* C14: SetBuilder::build returns an error exactly when some assignment, at
\* any position, holds a nested SelectBuilder whose placeholder kind is not
\* QuestionMark; with QuestionMark everywhere it succeeds.
C14_NestedNotationChecked ==
    SetBuilt =>
        /\ WrongNotation(items) <=> ~set_builder.ok
        /\ ~set_builder.ok =>
              set_builder.err
                  = "select builder should be using the question mark placeholder kind"

C14_Witness ==
    /\ SetBuilt /\ ~set_builder.ok
    /\ Len(items) = 2
    /\ items[1].value.kind = "Value"
    /\ items[2].value.kind = "Query"
    /\ items[2].value.q.placeholder_kind = "DollarSequential"

\* ===================================================== claims: Expression
IsNullCheck(op) == op \in {"IsNull", "NotNull"}

\* what the data model says a ValueRef contributes
Contribution(cv) ==
    CASE cv.kind = "Single" -> 1
      [] cv.kind = "Range" -> 2
      [] OTHER -> 0

\* the contributions of the Conditions before position i
RECURSIVE ContributionsBefore(_, _)
ContributionsBefore(cs, i) ==
    IF i <= 1 THEN 0
    ELSE ContributionsBefore(cs, i - 1) + Contribution(cs[i - 1].value)

\* the marker characters that belong to operator symbols, not to bindings
RECURSIVE OperatorMarks(_, _)
OperatorMarks(cs, i) ==
    IF i > Len(cs) THEN 0
    ELSE CountQ(OperatorText(cs[i].operator)) + OperatorMarks(cs, i + 1)

\* the generic markers of an Expression's text: the marker characters the
\* Value Binder emitted
GenericMarkers(e, cs) == CountQ(e.condition) - OperatorMarks(cs, 1)

Built == expr # NotBuilt

\* C4: for every non-empty list of valid Conditions the number of generic
\* markers in the Expression's text equals the sum of the contributions
\* (Literal 1, Range 2, FieldReference 0, no value 0) and equals the length
\* of the values list.
C4_MarkersEqualContributions ==
    (Built /\ expr.ok) =>
        /\ GenericMarkers(expr, conds) = ContributionsBefore(conds, Len(conds) + 1)
        /\ GenericMarkers(expr, conds) = Len(expr.values)

\* the same Conditions with the value of every null check removed
StripNullCheckValues(cs) ==
    [i \in 1..Len(cs) |->
        IF IsNullCheck(cs[i].operator) THEN [cs[i] EXCEPT !.value = NoValue]
        ELSE cs[i]]

\* C5: a Condition whose operator is IsNull or NotNull never consults its
\* value: the Expression built (text and values) is the one built from the
\* same Conditions with those values absent.
C5_NullCheckIgnoresValue ==
    (Built /\ expr.ok) =>
        LET bare == ExpressionBuilder_build(StripNullCheckValues(conds), logic)
        IN  /\ expr.condition = bare.condition
            /\ expr.values = bare.values

\* the marker shape of one bound value: "?" or, for an array, "(?)"
MarkerShape(v) == IF v \in ArrayValues THEN <<"(", QM, ")">> ELSE <<QM>>

\* t ends with the tokens of s
EndsWith(t, s) ==
    /\ Len(t) >= Len(s)
    /\ SubSeq(t, Len(t) - Len(s) + 1, Len(t)) = s

\* C6: each Condition contributes to values, in Condition order: nothing
\* for a FieldReference (rendered as the text alias.field), exactly one
\* value for a Literal, exactly two for a Range, low first then high, as in
\* the rendered "? AND ?".
C6_ContributionsInOrder ==
    (Built /\ expr.ok) =>
        /\ Len(expr.values) = ContributionsBefore(conds, Len(conds) + 1)
        /\ \A i \in 1..Len(conds) :
              LET cv == conds[i].value
                  at == ContributionsBefore(conds, i)
                  fragment == ConditionBuilder_build(conds[i]).text
                  rendered == ~IsNullCheck(conds[i].operator)
              IN  /\ cv.kind = "Single" => expr.values[at + 1] = cv.a
                  /\ cv.kind = "Range" =>
                        /\ expr.values[at + 1] = cv.a
                        /\ expr.values[at + 2] = cv.b
                        /\ rendered => EndsWith(fragment,
                               MarkerShape(cv.a) \o <<SP, "AND", SP>> \o MarkerShape(cv.b))
                  /\ (cv.kind = "Field" /\ rendered) =>
                        /\ EndsWith(fragment, <<cv.a, ".", cv.b>>)
                        /\ CountQ(fragment) = CountQ(OperatorText(conds[i].operator))

C6_Witness ==
    /\ Built /\ expr.ok
    /\ Len(conds) = 2
    /\ conds[1].value.kind = "Field"
    /\ conds[2].value.kind = "Range"
    /\ expr.values = <<conds[2].value.a, conds[2].value.b>>

\* ================================================ claims: grouped clauses
WhereBuilt == where_clause # NoClause
JoinBuilt == join_clause # NoClause

WherePrefix == <<"WHERE", SP>>
JoinPrefix == <<JoinKindText(jkind), SP, "JOIN", SP, "products", SP, "as", SP, "p", SP, "ON", SP>>

\* the clause text after its "WHERE " / "KIND JOIN table as alias ON " prefix
WhereBody == SubSeq(where_clause.statement, Len(WherePrefix) + 1, Len(where_clause.statement))
JoinBody == SubSeq(join_clause.statement, Len(JoinPrefix) + 1, Len(join_clause.statement))

\* Expression i as the grouping rule wraps it: connective text (or nothing),
\* one opening parenthesis, the text, one closing parenthesis
Wrapped(e) == Str(LogicText(e.logic)) \o <<SP, "(">> \o e.condition \o <<")">>

\* the wrapped Expressions, one space between neighbours, surrounding
\* whitespace removed
GroupedBody(es) ==
    Trim(Concat([i \in 1..Len(es) |->
                    (IF i > 1 THEN <<SP>> ELSE <<>>) \o Wrapped(es[i])]))

RECURSIVE SumTok(_, _, _)
SumTok(es, i, x) ==
    IF i > Len(es) THEN 0 ELSE CountTok(es[i].condition, x) + SumTok(es, i + 1, x)

\* the number of parentheses x the clause body adds to those of the texts
AddedParens(body, es, x) == CountTok(body, x) - SumTok(es, 1, x)

GroupingRule(body, es) ==
    /\ Len(es) >= 2 =>
          /\ body = GroupedBody(es)
          /\ AddedParens(body, es, "(") = Len(es)
          /\ AddedParens(body, es, ")") = Len(es)
    /\ Len(es) = 1 =>
          /\ AddedParens(body, es, "(") = 0
          /\ AddedParens(body, es, ")") = 0

\* C7: WhereBuilder::build and JoinBuilder::build group exactly when more
\* than one Expression is supplied: with two or more, each Expression's text
\* is wrapped in exactly one parenthesis pair prefixed by its trailing
\* connective's text (or nothing); with exactly one, no parentheses are added.
C7_GroupIffMoreThanOne ==
    /\ WhereBuilt =>
          /\ SubSeq(where_clause.statement, 1, Len(WherePrefix)) = WherePrefix
          /\ GroupingRule(WhereBody, exprs)
    /\ JoinBuilt =>
          /\ SubSeq(join_clause.statement, 1, Len(JoinPrefix)) = JoinPrefix
          /\ GroupingRule(JoinBody, exprs)

C7_Witness ==
    /\ WhereBuilt /\ JoinBuilt
    /\ Len(exprs) = 2
    /\ exprs[1].logic = "None" /\ exprs[2].logic = "And"
    /\ CountTok(exprs[2].condition, "(") = 1
    /\ CountTok(WhereBody, "(") = 3

LoneWithConnective == Len(exprs) = 1 /\ exprs[1].logic # "None"

\* C8 as claimed: a lone Expression whose trailing connective is set has
\* that connective rendered as a leading prefix of its text, without
\* parentheses.
C8_LoneConnectiveRendered ==
    LoneWithConnective =>
        /\ WhereBuilt => WhereBody = <<LogicText(exprs[1].logic), SP>> \o exprs[1].condition
        /\ JoinBuilt => JoinBody = <<LogicText(exprs[1].logic), SP>> \o exprs[1].condition

\* C8 (amended): a lone Expression passes through unchanged: its trailing
\* connective, even when set, is not rendered, and no parentheses are added;
\* the clause is the prefix followed by the Expression's text.
C8_LoneConnectiveDropped ==
    LoneWithConnective =>
        /\ WhereBuilt => where_clause.statement = WherePrefix \o exprs[1].condition
        /\ JoinBuilt => join_clause.statement = JoinPrefix \o exprs[1].condition

C8_Witness ==
    /\ WhereBuilt /\ JoinBuilt
    /\ Len(exprs) = 1
    /\ exprs[1].logic = "And"
    /\ where_clause.statement # <<>>
    /\ where_clause.statement[3] # "AND"

\* the first position >= from at which s occurs in t, 0 if there is none
FindFrom(t, s, from) ==
    LET hits == {at \in from..(Len(t) - Len(s) + 1) : SubSeq(t, at, at + Len(s) - 1) = s}
    IN  IF hits = {} THEN 0 ELSE CHOOSE at \in hits : \A other \in hits : at <= other

\* the texts of es[i..] occur in t one after another, without overlap,
\* starting at or after position from
RECURSIVE TextsInOrder(_, _, _, _)
TextsInOrder(t, es, i, from) ==
    IF i > Len(es) THEN TRUE
    ELSE LET at == FindFrom(t, es[i].condition, from)
         IN  at # 0 /\ TextsInOrder(t, es, i + 1, at + Len(es[i].condition))

RECURSIVE ValuesBefore(_, _)
ValuesBefore(es, i) ==
    IF i <= 1 THEN 0 ELSE ValuesBefore(es, i - 1) + Len(es[i - 1].values)

ValuesInExpressionOrder(clause, es) ==
    /\ Len(clause.values) = ValuesBefore(es, Len(es) + 1)
    /\ \A i \in 1..Len(es) :
          SubSeq(clause.values, ValuesBefore(es, i) + 1, ValuesBefore(es, i + 1))
             = es[i].values
    /\ TextsInOrder(clause.statement, es, 1, 1)
    /\ CountQ(clause.statement) = SumTok(es, 1, QM)

\* C9: the values of a grouped clause are the concatenation of the
\* Expressions' value lists in Expression order, the left-to-right order in
\* which the Expressions' texts (and so their markers) appear in the clause.
C9_ValuesInExpressionOrder ==
    /\ WhereBuilt => ValuesInExpressionOrder(where_clause, exprs)
    /\ JoinBuilt => ValuesInExpressionOrder(join_clause, exprs)

C9_Witness ==
    /\ WhereBuilt /\ JoinBuilt
    /\ Len(exprs) = 2
    /\ exprs[1].values = <<"10", "20", "30">>
    /\ exprs[2].values = <<"[1,2]">>
    /\ join_clause.values = <<"10", "20", "30", "[1,2]">>

\* ================================== specification: the statement builders
PlaceholderKinds == {"QuestionMark", "DollarSequential"}

\* Expression inputs of the builder calls: a literal, a range with a
\* connective and a JSON operator whose text holds the marker character
StmtLiteral == [conds |-> <<Cond("t", "a", "Eq", Single("10"), "None")>>, logic |-> "None"]
StmtRange ==
    [conds |-> <<Cond("None", "b", "Between", Range("20", "30"), "None")>>, logic |-> "And"]
StmtJson == [conds |-> <<Cond("t", "h", "JsonbHasKey", Single("20"), "None")>>, logic |-> "None"]

\* one Condition t.h <op> ? for each operator whose text holds the marker
\* character
JsonOps == {"JsonbHasKey", "JsonbHasAnyKeys", "JsonbHasAllKeys", "JsonbHasPath"}
StmtJsonOp(op) == [conds |-> <<Cond("t", "h", op, Single("20"), "None")>>, logic |-> "None"]

\* the Expression lists handed to join() and filter(): the empty
\* list, every lone Expression and a list that is grouped
StmtInputLists ==
    { <<>>, <<StmtLiteral>>, <<StmtRange>>, <<StmtJson>>, <<StmtRange, StmtLiteral>> }
        \cup { <<StmtJsonOp(op)>> : op \in JsonOps }

\* the values the markers of one rendered Condition stand for, left to right
CondMarks(item) ==
    IF item.value.kind # "None" /\ ~IsNullCheck(item.operator)
    THEN CASE item.value.kind = "Single" -> <<item.value.a>>
           [] item.value.kind = "Range" -> <<item.value.a, item.value.b>>
           [] OTHER -> <<>>
    ELSE <<>>

InputMarks(x) == Concat([i \in 1..Len(x.conds) |-> CondMarks(x.conds[i])])

ListMarks(xs) == Concat([i \in 1..Len(xs) |-> InputMarks(xs[i])])

\* a Condition that renders one marker per pushed value and whose operator
\* text holds no marker character
PlainCond(item) ==
    /\ CountQ(OperatorText(item.operator)) = 0
    /\ PushValues(item.value) = CondMarks(item)

PlainList(xs) ==
    \A i \in 1..Len(xs) : \A j \in 1..Len(xs[i].conds) : PlainCond(xs[i].conds[j])

\* the nested Select of an assignment: SELECT u.email FROM users as u
\* WHERE u.email = ?, under either notation
SubInput == [conds |-> <<Cond("u", "email", "Eq", Single("30"), "None")>>, logic |-> "None"]

SubSelect(placeholder) ==
    SelectBuilder_filter(
        SelectBuilder_columns(
            SelectBuilder_table(SelectBuilder_new(placeholder), "users", "u"),
            "u", <<"email">>),
        <<BuildInput(SubInput)>>)

\* a nested Select with two values: SELECT u.email FROM users as u
\* WHERE b BETWEEN ? AND ?
SubSelectRange ==
    SelectBuilder_filter(
        SelectBuilder_columns(
            SelectBuilder_table(SelectBuilder_new("QuestionMark"), "users", "u"),
            "u", <<"email">>),
        <<BuildInput(StmtRange)>>)

\* assignments with the values their markers stand for: a plain value and
\* a nested Select of each notation and with a range
SetName == [item |-> SetFieldUpdate("name", SetValue_Value("10")), marks |-> <<"10">>]
SetQuestion ==
    [item |-> SetFieldUpdate("email", SetValue_Query(SubSelect("QuestionMark"))),
     marks |-> InputMarks(SubInput)]
SetDollar ==
    [item |-> SetFieldUpdate("email", SetValue_Query(SubSelect("DollarSequential"))),
     marks |-> InputMarks(SubInput)]
SetRange ==
    [item |-> SetFieldUpdate("email", SetValue_Query(SubSelectRange)),
     marks |-> InputMarks(StmtRange)]

\* the assignment lists handed to set(): the empty list, every lone
\* assignment, and lists with a nested Select after and before a plain value
SetLists ==
    { <<>>, <<SetName>>, <<SetQuestion>>, <<SetDollar>>, <<SetRange>>,
      <<SetName, SetQuestion>>, <<SetName, SetRange>>, <<SetName, SetDollar>>,
      <<SetRange, SetName>> }

SetItems(xs) == [i \in 1..Len(xs) |-> xs[i].item]
SetMarks(xs) == Concat([i \in 1..Len(xs) |-> xs[i].marks])

\* the column lists and value tuples handed to an InsertBuilder
ColumnLists == {<<>>, <<"name">>, <<"name", "email">>}
Tuples == {<<"10">>, <<"20", "30">>, <<"30", "10">>}

InitStmt ==
    /\ IdleExpr /\ IdleGroup /\ IdleSet /\ IdleClause
    /\ stmt \in {"select", "update", "delete", "insert"}
    /\ \E pk \in PlaceholderKinds :
          /\ sel = SelectBuilder_new(IF stmt = "select" THEN pk ELSE "QuestionMark")
          /\ upd = UpdateBuilder_new(IF stmt = "update" THEN pk ELSE "QuestionMark")
          /\ del = DeleteBuilder_new(IF stmt = "delete" THEN pk ELSE "QuestionMark")
          /\ ins = InsertBuilder_new(IF stmt = "insert" THEN pk ELSE "QuestionMark")
    /\ hist = NoCalls /\ ghost = NoGhost /\ out = NoOut

\* the builder calls that take a clause
ClauseCalls == {"join", "filter", "set"}

\* the place of the clause a SelectBuilder call fills in the text
\* SelectBuilder::build assembles, 0 for the calls that fill none
ClauseRank(name) ==
    CASE name = "join" -> 1
      [] name = "filter" -> 2
      [] name = "group_by" -> 3
      [] name = "order_by" -> 4
      [] name = "limit" -> 5
      [] name = "offset" -> 6
      [] OTHER -> 0

\* the places of the clauses self holds
PopulatedRanks(self) ==
    (IF self.join_statement.some THEN {1} ELSE {})
        \cup (IF self.filter_statement.some THEN {2} ELSE {})
        \cup (IF self.group_by_statement.some THEN {3} ELSE {})
        \cup (IF self.order_by_statement.some THEN {4} ELSE {})
        \cup (IF self.limit.some THEN {5} ELSE {})
        \cup (IF self.offset.some THEN {6} ELSE {})

\* the order lists and group lists handed to a SelectBuilder: the empty
\* list, a valid list, and a list whose second item has an empty field
StmtOrderLists ==
    { <<>>,
      <<OrderByItem("t", "a", "Asc")>>,
      <<OrderByItem("None", "b", "Desc"), OrderByItem("None", "", "Asc")>> }
StmtGroupLists ==
    { <<>>,
      <<GroupByItem("t", "a")>>,
      <<GroupByItem("None", "b"), GroupByItem("t", "")>> }

\* one more builder call may be made; err is the error it returns, "" for
\* none
CallWith(name, err) ==
    /\ hist.calls < MaxCalls
    /\ name \in ClauseCalls => hist.clauses < MaxClauseCalls
    /\ hist' = [calls |-> hist.calls + 1,
                clauses |-> hist.clauses + (IF name \in ClauseCalls THEN 1 ELSE 0),
                filter |-> hist.filter + (IF name = "filter" THEN 1 ELSE 0),
                set |-> hist.set + (IF name = "set" THEN 1 ELSE 0),
                values |-> hist.values + (IF name = "values" THEN 1 ELSE 0),
                setok |-> hist.setok + (IF name = "set" /\ err = "" THEN 1 ELSE 0),
                setfirst |-> hist.setfirst \/ (name = "set" /\ err = "" /\ hist.filter = 0),
                late |-> hist.late \/ (/\ stmt = "select" /\ ClauseRank(name) # 0
                                        /\ \E r \in PopulatedRanks(sel) : ClauseRank(name) < r),
                err |-> err]
    /\ out' = NoOut
    /\ UNCHANGED <<exprVars, groupVars, setVars, clauseVars, stmt>>

\* a builder call that cannot fail
Call(name) == CallWith(name, "")

SelDistinct ==
    /\ stmt = "select" /\ Call("distinct")
    /\ sel' = SelectBuilder_distinct(sel)
    /\ UNCHANGED <<upd, del, ins, ghost>>

SelTable ==
    /\ stmt = "select" /\ Call("table")
    /\ sel' = SelectBuilder_table(sel, "orders", "o")
    /\ UNCHANGED <<upd, del, ins, ghost>>

SelColumns ==
    /\ stmt = "select" /\ Call("columns")
    /\ \E values \in {<<>>, <<"id">>} : sel' = SelectBuilder_columns(sel, "o", values)
    /\ UNCHANGED <<upd, del, ins, ghost>>

SelColumnsRaw ==
    /\ stmt = "select" /\ Call("columns_raw")
    /\ \E values \in {<<>>, <<"COUNT(o.id) as n">>} :
          sel' = SelectBuilder_columns_raw(sel, values)
    /\ UNCHANGED <<upd, del, ins, ghost>>

\* join() is given the lists of StmtInputLists with one JSON operator; the
\* other operators whose text holds the marker character go to filter()
SelJoin ==
    /\ stmt = "select" /\ Call("join")
    /\ \E xs \in StmtInputLists \ { <<StmtJsonOp(op)>> : op \in JsonOps \ {"JsonbHasKey"} } :
          /\ sel' = SelectBuilder_join(sel, "Left", "products", "p", BuildInputs(xs))
          /\ ghost' = [ghost EXCEPT !.join = @ \o ListMarks(xs),
                                    !.plain = @ /\ PlainList(xs)]
    /\ UNCHANGED <<upd, del, ins>>

SelFilter ==
    /\ stmt = "select" /\ Call("filter")
    /\ \E xs \in StmtInputLists :
          /\ sel' = SelectBuilder_filter(sel, BuildInputs(xs))
          /\ ghost' = [ghost EXCEPT !.filter = IF xs # <<>> THEN ListMarks(xs) ELSE @,
                                    !.plain = @ /\ PlainList(xs)]
    /\ UNCHANGED <<upd, del, ins>>

\* the builder after order_by() or group_by() returned result
SelClauseResult(name, result) ==
    /\ CallWith(name, result.err)
    /\ sel' = result.self

SelOrderBy ==
    /\ stmt = "select"
    /\ \E values \in StmtOrderLists :
          SelClauseResult("order_by", SelectBuilder_order_by(sel, values))
    /\ UNCHANGED <<upd, del, ins, ghost>>

SelGroupBy ==
    /\ stmt = "select"
    /\ \E values \in StmtGroupLists :
          SelClauseResult("group_by", SelectBuilder_group_by(sel, values))
    /\ UNCHANGED <<upd, del, ins, ghost>>

SelLimit ==
    /\ stmt = "select" /\ Call("limit")
    /\ sel' = SelectBuilder_limit(sel, 10)
    /\ UNCHANGED <<upd, del, ins, ghost>>

SelOffset ==
    /\ stmt = "select" /\ Call("offset")
    /\ sel' = SelectBuilder_offset(sel, 0)
    /\ UNCHANGED <<upd, del, ins, ghost>>

SelBuild ==
    /\ stmt = "select"
    /\ out' = SelectBuilder_build(sel)
    /\ UNCHANGED <<exprVars, groupVars, setVars, clauseVars, stmt, sel, upd, del, ins, hist, ghost>>

UpdTable ==
    /\ stmt = "update" /\ Call("table")
    /\ upd' = UpdateBuilder_table(upd, "users")
    /\ UNCHANGED <<sel, del, ins, ghost>>

\* the builder after set() returned result
UpdSetResult(xs, result) ==
    /\ CallWith("set", result.err)
    /\ upd' = result.self
    /\ ghost' = IF result.ok THEN [ghost EXCEPT !.set = SetMarks(xs)] ELSE ghost

UpdSet ==
    /\ stmt = "update"
    /\ \E xs \in SetLists : UpdSetResult(xs, UpdateBuilder_set(upd, SetItems(xs)))
    /\ UNCHANGED <<sel, del, ins>>

UpdFilter ==
    /\ stmt = "update" /\ Call("filter")
    /\ \E xs \in StmtInputLists :
          /\ upd' = UpdateBuilder_filter(upd, BuildInputs(xs))
          /\ ghost' = [ghost EXCEPT !.filter = IF xs # <<>> THEN ListMarks(xs) ELSE @,
                                    !.plain = @ /\ PlainList(xs)]
    /\ UNCHANGED <<sel, del, ins>>

UpdReturning ==
    /\ stmt = "update" /\ Call("returning")
    /\ upd' = UpdateBuilder_returning(upd, <<"email", "name">>)
    /\ UNCHANGED <<sel, del, ins, ghost>>

UpdBuild ==
    /\ stmt = "update"
    /\ out' = UpdateBuilder_build(upd)
    /\ UNCHANGED <<exprVars, groupVars, setVars, clauseVars, stmt, sel, upd, del, ins, hist, ghost>>

DelTable ==
    /\ stmt = "delete" /\ Call("table")
    /\ \E alias \in {"None", "u"} : del' = DeleteBuilder_table(del, "users", alias)
    /\ UNCHANGED <<sel, upd, ins, ghost>>

DelUsing ==
    /\ stmt = "delete" /\ Call("using")
    /\ \E alias \in {"None", "o"} : del' = DeleteBuilder_using(del, "orders", alias)
    /\ UNCHANGED <<sel, upd, ins, ghost>>

DelFilter ==
    /\ stmt = "delete" /\ Call("filter")
    /\ \E xs \in StmtInputLists :
          /\ del' = DeleteBuilder_filter(del, BuildInputs(xs))
          /\ ghost' = [ghost EXCEPT !.filter = IF xs # <<>> THEN ListMarks(xs) ELSE @,
                                    !.plain = @ /\ PlainList(xs)]
    /\ UNCHANGED <<sel, upd, ins>>

DelReturning ==
    /\ stmt = "delete" /\ Call("returning")
    /\ del' = DeleteBuilder_returning(del, <<"u.email">>)
    /\ UNCHANGED <<sel, upd, ins, ghost>>

DelBuild ==
    /\ stmt = "delete"
    /\ out' = DeleteBuilder_build(del)
    /\ UNCHANGED <<exprVars, groupVars, setVars, clauseVars, stmt, sel, upd, del, ins, hist, ghost>>

InsTable ==
    /\ stmt = "insert" /\ Call("table")
    /\ ins' = InsertBuilder_table(ins, "users")
    /\ UNCHANGED <<sel, upd, del, ghost>>

InsColumns ==
    /\ stmt = "insert" /\ Call("columns")
    /\ \E values \in ColumnLists : ins' = InsertBuilder_columns(ins, values)
    /\ UNCHANGED <<sel, upd, del, ghost>>

\* the builder after values(values) returned result
InsValuesResult(values, result) ==
    /\ CallWith("values", result.err)
    /\ ins' = result.self
    /\ ghost' = [ghost EXCEPT !.arg = values]

InsValues ==
    /\ stmt = "insert"
    /\ \E values \in Tuples : InsValuesResult(values, InsertBuilder_values(ins, values))
    /\ UNCHANGED <<sel, upd, del>>

InsReturning ==
    /\ stmt = "insert" /\ Call("returning")
    /\ ins' = InsertBuilder_returning(ins, <<"name", "email">>)
    /\ UNCHANGED <<sel, upd, del, ghost>>

InsBuild ==
    /\ stmt = "insert"
    /\ out' = InsertBuilder_build(ins)
    /\ UNCHANGED <<exprVars, groupVars, setVars, clauseVars, stmt, sel, upd, del, ins, hist, ghost>>

Next ==
    \/ InsTable \/ InsColumns \/ InsValues \/ InsReturning \/ InsBuild
    \/ SelDistinct \/ SelTable \/ SelColumns \/ SelColumnsRaw \/ SelJoin \/ SelFilter
    \/ SelGroupBy \/ SelOrderBy \/ SelLimit \/ SelOffset \/ SelBuild
    \/ UpdTable \/ UpdSet \/ UpdFilter \/ UpdReturning \/ UpdBuild
    \/ DelTable \/ DelUsing \/ DelFilter \/ DelReturning \/ DelBuild

Spec == InitStmt /\ [][Next]_vars

\* ============================================ claims: statement builders
\* the builder in use, its assembled statement and what build() returns
\* for it under placeholder notation pk
Values ==
    CASE stmt = "select" -> SelectBuilder_get_values(sel)
      [] stmt = "update" -> UpdateBuilder_get_values(upd)
      [] stmt = "delete" -> DeleteBuilder_get_values(del)
      [] stmt = "insert" -> Concat(InsertBuilder_get_values(ins))
      [] OTHER -> <<>>

Assembled ==
    CASE stmt = "select" -> SelectBuilder_statement(sel)
      [] stmt = "update" -> UpdateBuilder_statement(upd)
      [] stmt = "delete" -> DeleteBuilder_statement(del)
      [] stmt = "insert" ->
            InsertBuilder_statement([ins EXCEPT !.placeholder_kind = "QuestionMark"])
      [] OTHER -> <<>>

BuildAs(pk) ==
    CASE stmt = "select" -> SelectBuilder_build([sel EXCEPT !.placeholder_kind = pk])
      [] stmt = "update" -> UpdateBuilder_build([upd EXCEPT !.placeholder_kind = pk])
      [] stmt = "delete" -> DeleteBuilder_build([del EXCEPT !.placeholder_kind = pk])
      [] stmt = "insert" -> InsertBuilder_build([ins EXCEPT !.placeholder_kind = pk])
      [] OTHER -> NoOut

PlaceholderKind ==
    CASE stmt = "select" -> sel.placeholder_kind
      [] stmt = "update" -> upd.placeholder_kind
      [] stmt = "delete" -> del.placeholder_kind
      [] stmt = "insert" -> ins.placeholder_kind
      [] OTHER -> "QuestionMark"

\* the values the markers of the assembled text stand for, left to right:
\* the text slots in their canonical order
BoundInTextOrder ==
    CASE stmt = "select" -> ghost.join \o ghost.filter
      [] stmt = "update" -> ghost.set \o ghost.filter
      [] stmt = "delete" -> ghost.filter
      [] stmt = "insert" -> Concat(InsertBuilder_get_values(ins))
      [] OTHER -> <<>>

\* the calls named name made so far
Calls(name) == hist[name]

\* the ghost follows the text: with plain Conditions only, the assembled
\* text holds one marker per ghost entry
GhostFollowsText ==
    ghost.plain => CountQ(Assembled) = Len(BoundInTextOrder)

\* C1: SelectBuilder, after any sequence of join() calls and at most one
\* filter() call in any relative order: the i-th entry of get_values() is
\* the value bound by the i-th generic marker of the text build() returns;
\* the values of a join clause precede those of the filter clause.  Stated
\* for Conditions that render one marker per pushed value.
C1_SelectValuesFollowMarkers ==
    (stmt = "select" /\ Calls("filter") <= 1 /\ ghost.plain) =>
        SelectBuilder_get_values(sel) = BoundInTextOrder

\* C2: UpdateBuilder, one successful set() and one filter() in either
\* order: get_values() lists the SET values first and the WHERE values after
\* them, the order of the markers in the text build() returns.  Stated for
\* Conditions that render one marker per pushed value.
C2_UpdateSetValuesFirst ==
    (stmt = "update" /\ Calls("set") = 1 /\ Calls("filter") = 1
       /\ upd.set_statement # <<>> /\ ghost.plain) =>
        UpdateBuilder_get_values(upd) = BoundInTextOrder

\* a placeholder of either notation
IsPlaceholder(tok) == tok = QM \/ \E k \in 1..(Len(Assembled) + 1) : tok = Dollar(k)

CountPlaceholders(t) == Cardinality({i \in 1..Len(t) : IsPlaceholder(t[i])})

\* C3: Select, Update and Delete, after any sequence of builder calls
\* (filter() called more than once included): the number of placeholders in
\* the text build() returns equals the length of get_values().  Stated for
\* Conditions that render one marker per pushed value.
C3_PlaceholdersEqualValues ==
    (out.ok /\ ghost.plain) => CountPlaceholders(out.text) = Len(Values)

\* the positions of the markers of t
MarkerPositions(t) == {i \in 1..Len(t) : t[i] = QM}

\* marker positions i < j with no marker between them
Adjacent(t, i, j) ==
    /\ i \in MarkerPositions(t) /\ j \in MarkerPositions(t) /\ i < j
    /\ \A m \in MarkerPositions(t) : ~(i < m /\ m < j)

\* C10: for every statement builder state, the text build() returns under
\* sequential notation is the text it returns under repeated-symbol notation
\* with the k-th "?" replaced by "$k" and nothing else changed (the numbers
\* are 1..n, increasing by one, no gap or repeat); the repeated-symbol text
\* is the assembled text, trimmed.
C10_SequentialIsNumberedQuestionMark ==
    LET q == BuildAs("QuestionMark").text
        d == BuildAs("DollarSequential").text
        ms == MarkerPositions(q)
    IN  /\ Len(d) = Len(q)
        /\ \A i \in (1..Len(q)) \ ms : d[i] = q[i]
        /\ \A i \in ms : (\A m \in ms : i <= m) => d[i] = "$1"
        /\ \A i \in ms : \A j \in ms :
              Adjacent(q, i, j) =>
                  \E k \in 1..Cardinality(ms) : d[i] = Dollar(k) /\ d[j] = Dollar(k + 1)
        /\ q = Trim(Assembled)
        /\ out.ok => out.text = IF PlaceholderKind = "QuestionMark" THEN q ELSE d

C10_Witness ==
    /\ stmt = "select" /\ out.ok
    /\ sel.placeholder_kind = "DollarSequential"
    /\ sel.join_statement.some /\ sel.filter_statement.some
    /\ CountTok(out.text, "$1") = 1
    /\ CountTok(out.text, "$3") = 1
    /\ CountQ(out.text) = 0


\* the filter slot of the statement in use
FilterSlot ==
    CASE stmt = "select" -> sel.filter_statement
      [] stmt = "update" -> upd.filter_statement
      [] stmt = "delete" -> del.filter_statement
      [] OTHER -> None

\* WHERE t.h <op> ? as WhereBuilder::build stores it
JsonFilterText(op) == <<"WHERE", SP, "t", ".", "h", SP>> \o OperatorText(op) \o <<SP, QM>>

\* the same clause with the operator's "?" numbered 1 and the value's 2
JsonFilterNumbered(op) ==
    LET o == OperatorText(op)
    IN  <<"WHERE", SP, "t", ".", "h", SP>>
            \o [i \in 1..Len(o) |-> IF o[i] = QM THEN "$1" ELSE o[i]] \o <<SP, "$2">>

\* text t holds part as a run of consecutive tokens
Contains(t, part) ==
    \E i \in 0..(Len(t) - Len(part)) : SubSeq(t, i + 1, i + Len(part)) = part

\* C11: under sequential notation build() numbers every "?" of the
\* assembled text, the ones inside the text of the JSON operators
\* JsonbHasKey, JsonbHasAnyKeys, JsonbHasAllKeys and JsonbHasPath included:
\* no "?" is left, there are as many numbered placeholders as "?" in the
\* assembled text, and a statement whose only clause is a filter of one
\* such Condition with a Literal is built with the two placeholders $1 (in
\* the operator) and $2 (the value) while get_values() has one entry.
C11_OperatorMarkersAreNumbered ==
    (out.ok /\ PlaceholderKind = "DollarSequential") =>
        /\ CountQ(out.text) = 0
        /\ CountPlaceholders(out.text) = CountQ(Assembled)
        /\ \A op \in JsonOps :
              (Calls("clauses") = 1 /\ FilterSlot = Some(JsonFilterText(op))) =>
                  /\ CountPlaceholders(out.text) = 2
                  /\ Contains(out.text, JsonFilterNumbered(op))
                  /\ Len(Values) = 1

C11_Witness ==
    /\ stmt = "delete" /\ out.ok /\ del.placeholder_kind = "DollarSequential"
    /\ Calls("clauses") = 1
    /\ del.filter_statement = Some(JsonFilterText("JsonbHasPath"))
    /\ Contains(out.text, <<"@", "$1", SP, "$2">>)
    /\ Len(DeleteBuilder_get_values(del)) = 1

\* the sequential-numbering pass of the statement in use, counter at 0,
\* applied to text t
Renumbered(t) ==
    IF stmt = "select" THEN Trim(NumberMarkers(t, 0))
    ELSE Trim(MapMarkers(t, "DollarSequential", 0))

\* C12: applying the sequential-numbering pass to the text it produced
\* returns that text unchanged: numbered text is not numbered again.
C12_RenumberingIsIdentity ==
    (out.ok /\ PlaceholderKind = "DollarSequential") => Renumbered(out.text) = out.text

C12_Witness ==
    /\ stmt = "update" /\ out.ok /\ upd.placeholder_kind = "DollarSequential"
    /\ upd.set_statement # <<>> /\ upd.filter_statement.some
    /\ CountTok(out.text, "$1") = 1 /\ CountTok(out.text, "$2") = 1
    /\ Renumbered(out.text) = out.text

\* C13: on an UpdateBuilder at most one set() call succeeds; a set() call
\* made after one has succeeded returns an error and leaves the SET text
\* and the value list as they were.
C13_SetSucceedsOnce ==
    [][ (stmt = "update" /\ hist'.set = hist.set + 1 /\ hist.setok >= 1) =>
            /\ hist'.err # ""
            /\ hist'.setok = 1
            /\ upd'.set_statement = upd.set_statement
            /\ UpdateBuilder_get_values(upd') = UpdateBuilder_get_values(upd) ]_vars

C13_Witness ==
    /\ stmt = "update" /\ hist.set = 2 /\ hist.setok = 1
    /\ hist.err = SetOnceError
    /\ upd.set_statement # <<>>
    /\ Len(UpdateBuilder_get_values(upd)) = 2

\* the placeholders of text t, left to right
Placeholders(t) == SelectSeq(t, IsPlaceholder)

\* C15: UpdateBuilder under sequential notation, set() succeeded before the
\* one filter() call and an assignment's right-hand side is a nested Select:
\* get_values() lists the assignments' values in assignment order, the
\* values of the nested Select at its assignment's place and in the nested
\* statement's order, then the filter's values; the placeholders of the
\* built text are $1..$n in this order, so $i stands for get_values()[i-1].
C15_NestedValuesSpliced ==
    (stmt = "update" /\ out.ok /\ upd.placeholder_kind = "DollarSequential"
       /\ hist.setfirst /\ Calls("filter") = 1
       /\ \E i \in 1..Len(upd.set_statement) : upd.set_statement[i] = "(") =>
        /\ UpdateBuilder_get_values(upd) = ghost.set \o ghost.filter
        /\ Placeholders(out.text)
              = [k \in 1..Len(UpdateBuilder_get_values(upd)) |-> Dollar(k)]

\* C16: InsertBuilder::values returns an error when the number of values it
\* is given differs from the number of columns set at that moment, and then
\* leaves the stored tuples as they were; when the numbers are equal it
\* succeeds and the tuple is stored after all tuples stored before.
C16_ValuesCountChecked ==
    [][ (stmt = "insert" /\ hist'.values = hist.values + 1) =>
            IF Len(ghost'.arg) # Len(ins.fields)
            THEN /\ hist'.err # ""
                 /\ InsertBuilder_get_values(ins') = InsertBuilder_get_values(ins)
            ELSE /\ hist'.err = ""
                 /\ InsertBuilder_get_values(ins')
                       = Append(InsertBuilder_get_values(ins), ghost'.arg) ]_vars

C16_Witness ==
    /\ stmt = "insert" /\ hist.values = 2 /\ hist.calls = 3
    /\ hist.err = "mistched number of fields and values"
    /\ ins.fields = <<"name", "email">>
    /\ ghost.arg = <<"10">>
    /\ InsertBuilder_get_values(ins) = << <<"20", "30">> >>

\* the position of the VALUES keyword and of the "(" that opens the column
\* list in the text of an Insert
ValuesAt(t) == CHOOSE i \in 1..Len(t) : t[i] = "VALUES"
ColumnsAt(t) == CHOOSE i \in 1..Len(t) : t[i] = "(" /\ \A j \in 1..(i - 1) : t[j] # "("

\* the number of columns the text lists
ColumnsListed(t) ==
    Cardinality({i \in (ColumnsAt(t) + 1)..(ValuesAt(t) - 1) : t[i] \notin {",", SP, ")"}})

\* the positions where a VALUES tuple opens, and where the one opened at o
\* closes
TupleOpens(t) == {i \in (ValuesAt(t) + 1)..Len(t) : t[i] = "("}
TupleClose(t, o) ==
    CHOOSE c \in (o + 1)..Len(t) : t[c] = ")" /\ \A j \in (o + 1)..(c - 1) : t[j] # ")"

\* the number of placeholders of the tuple opened at o
TuplePlaceholders(t, o) ==
    Cardinality({i \in (o + 1)..(TupleClose(t, o) - 1) : IsPlaceholder(t[i])})

\* C17: InsertBuilder, after any sequence of columns() and values() calls:
\* in the text a successful build() returns, every VALUES tuple has as many
\* placeholders as the text lists columns.
C17_TuplesMatchColumns ==
    (stmt = "insert" /\ out.ok) =>
        \A o \in TupleOpens(out.text) :
            TuplePlaceholders(out.text, o) = ColumnsListed(out.text)

\* C18: InsertBuilder::build under sequential notation numbers the
\* placeholders 1..(rows x columns), tuple by tuple and left to right, one
\* per value of get_values() flattened in tuple order, starting at 1 at
\* every build(); under repeated-symbol notation every placeholder is "?".
C18_RowMajorNumbering ==
    (stmt = "insert" /\ out.ok) =>
        LET n == Len(InsertBuilder_get_values(ins)) * Len(ins.fields)
        IN  /\ Len(Concat(InsertBuilder_get_values(ins))) = n
            /\ Placeholders(out.text)
                  = [k \in 1..n |-> IF ins.placeholder_kind = "DollarSequential"
                                     THEN Dollar(k) ELSE QM]

\* the keyword that opens the clause at each place of a SELECT text
ClauseKeywords == <<"JOIN", "WHERE", "GROUP", "ORDER", "LIMIT", "OFFSET">>

\* the positions of token kw in t
TokenPositions(t, kw) == {i \in 1..Len(t) : t[i] = kw}

\* build() has returned a text for the SelectBuilder
SelectBuilt == stmt = "select" /\ out # NoOut /\ out.ok

\* C21: the text SelectBuilder::build returns holds the clauses the builder
\* was given, each one once (the join clauses, one per join() call, side by
\* side), in the order join, filter, group-by, order-by, limit, offset,
\* whatever the order of the calls that filled them.
C21_ClausesInFixedOrder ==
    SelectBuilt =>
        /\ \A r \in 1..6 :
              /\ (TokenPositions(out.text, ClauseKeywords[r]) # {}) <=> (r \in PopulatedRanks(sel))
              /\ r # 1 => Cardinality(TokenPositions(out.text, ClauseKeywords[r])) <= 1
        /\ \A r1 \in 1..6 : \A r2 \in (r1 + 1)..6 :
              \A i \in TokenPositions(out.text, ClauseKeywords[r1]) :
                 \A j \in TokenPositions(out.text, ClauseKeywords[r2]) : i < j

\* order_by(), group_by() and join() were called in an order that is not
\* the order of the text, and build() returned all three clauses
C21_Witness ==
    /\ SelectBuilt /\ hist.late
    /\ PopulatedRanks(sel) = {1, 3, 4}

\* C22: ConditionBuilder::build fails on a Condition whose field is empty,
\* and ExpressionBuilder::build fails with that error as soon as one
\* Condition of its list, at any position, has an empty field: it returns
\* no text and no values of the Conditions before it.  It succeeds when no
\* field is empty.
C22_EmptyFieldFailsWhole ==
    /\ \A i \in 1..Len(conds) :
          (conds[i].field = "") <=> ~ConditionBuilder_build(conds[i]).ok
    /\ Built =>
          IF \E i \in 1..Len(conds) : conds[i].field = ""
          THEN /\ ~expr.ok /\ expr.err = "field is empty"
               /\ expr.condition = <<>> /\ expr.values = <<>>
          ELSE expr.ok /\ expr.err = ""

\* the failing Condition comes after a valid one that pushes a value
C22_Witness ==
    /\ Built /\ ~expr.ok
    /\ Len(conds) = 2
    /\ conds[1].field # "" /\ PushValues(conds[1].value) # <<>>
    /\ conds[2].field = ""

\* the text ConditionBuilder::build returns for each Condition of conds
Fragments == [i \in 1..Len(conds) |-> ConditionBuilder_build(conds[i]).text]

\* C23: the text of the Expression is the Conditions' rendered fragments,
\* left to right, with exactly one space between two consecutive fragments
\* and none before the first or after the last; every fragment keeps its
\* connective prefix, the first one included, so a first Condition with
\* connective AND gives a text that begins with "AND ".
C23_FragmentsJoinedBySpace ==
    (Built /\ expr.ok) =>
        /\ expr.condition = JoinText(Fragments, <<SP>>)
        /\ Len(expr.condition) =
              Len(Concat(Fragments)) + (IF conds = <<>> THEN 0 ELSE Len(conds) - 1)
        /\ \A i \in 1..Len(conds) :
              conds[i].logic # "None" =>
                  SubSeq(Fragments[i], 1, 2) = <<LogicText(conds[i].logic), SP>>
        /\ (conds # <<>> /\ conds[1].logic = "And") =>
              SubSeq(expr.condition, 1, 2) = <<"AND", SP>>

C23_Witness ==
    /\ Built /\ expr.ok
    /\ Len(conds) = 2
    /\ conds[1].logic = "And" /\ conds[2].logic = "Or"
    /\ SubSeq(expr.condition, 1, 2) = <<"AND", SP>>

\* the generic markers of fragment i, the marker characters of its operator
\* text left out
FragmentMarkers(i) == CountQ(Fragments[i]) - CountQ(OperatorText(conds[i].operator))

\* C24: a Condition whose value is an array Literal renders it as one
\* marker in parentheses, "(?)", and the Expression's values hold one
\* entry for it, the whole array; a Literal that is not an array renders as
\* the bare marker "?"; no Literal gets more than one marker.
C24_ArrayIsOneMarker ==
    (Built /\ expr.ok) =>
        \A i \in 1..Len(conds) :
            LET v == conds[i].value.a
                at == ContributionsBefore(conds, i)
            IN  (conds[i].value.kind = "Single" /\ ~IsNullCheck(conds[i].operator)) =>
                    /\ FragmentMarkers(i) = 1
                    /\ ContributionsBefore(conds, i + 1) = at + 1
                    /\ expr.values[at + 1] = v
                    /\ IF v \in ArrayValues
                       THEN EndsWith(Fragments[i], <<SP, "(", QM, ")">>)
                       ELSE EndsWith(Fragments[i], <<SP, QM>>)

C24_Witness ==
    /\ Built /\ expr.ok
    /\ Len(conds) = 2
    /\ conds[1].value = Single("10")
    /\ conds[2].value = Single("[1,2]")
    /\ expr.values = <<"10", "[1,2]">>
    /\ EndsWith(expr.condition, <<"IN", SP, "(", QM, ")">>)

\* C25: once the last builder call on a statement has returned a
\* validation error (values() with a count mismatch, set() rejected,
\* order_by() or group_by() with an empty field), build() returns no text
\* for that statement and its value list is empty.
C25_FailedStatementYieldsNothing ==
    (hist.err # "" /\ out # NoOut) => (~out.ok /\ out.text = <<>> /\ Values = <<>>)

\* C26: once build() has returned on a statement builder, no later step
\* changes the builder or what build() returned: the statement is neither
\* changed by further builder calls nor built into another text.
C26_BuildIsTerminal ==
    [][out # NoOut =>
         /\ out' = out /\ hist' = hist
         /\ sel' = sel /\ upd' = upd /\ del' = del /\ ins' = ins]_vars

\* C27: every SelectBuilder::order_by call and every SelectBuilder::group_by
\* call made with an empty item list returns an error.
C27_EmptyListSurfaced ==
    [][(/\ stmt = "select"
        /\ \/ SelClauseResult("order_by", SelectBuilder_order_by(sel, <<>>))
           \/ SelClauseResult("group_by", SelectBuilder_group_by(sel, <<>>)))
       => hist'.err # ""]_vars

\* the error of SetBuilder::build for a nested Select of the wrong notation
NotationError == "select builder should be using the question mark placeholder kind"

\* C28: a set() call that fails on a nested Select of the wrong notation,
\* whatever its position in the list, leaves the UpdateBuilder as it was:
\* no value of the earlier assignments is in its value list and its SET
\* text is still empty.  As long as no set() call has succeeded, a set()
\* call is never refused for having been made before, and one with a valid
\* list succeeds.
C28_SetIsAllOrNothing ==
    [][ (stmt = "update" /\ hist'.set = hist.set + 1) =>
            /\ hist'.err = NotationError =>
                  /\ upd' = upd
                  /\ upd'.set_statement = <<>>
                  /\ UpdateBuilder_get_values(upd') = UpdateBuilder_get_values(upd)
            /\ hist.setok = 0 =>
                  /\ upd.set_statement = <<>>
                  /\ hist'.err \in {"", NotationError}
                  /\ \A xs \in SetLists :
                        ~WrongNotation(SetItems(xs)) => UpdateBuilder_set(upd, SetItems(xs)).ok ]_vars

\* the first set() call failed, and the next call, a set() of one plain
\* assignment, succeeded with its own value only
C28_Witness ==
    /\ stmt = "update" /\ hist.set = 2 /\ hist.setok = 1 /\ hist.calls = 2
    /\ hist.err = ""
    /\ upd.set_statement = <<"SET", SP, "name", SP, "=", SP, QM>>
    /\ UpdateBuilder_get_values(upd) = <<"10">>

\* the errors of order_by() and group_by() for an item with an empty field
ClauseErrors == {"order by field is empty", "group by field is empty"}

\* C29: an order_by() or group_by() call that fails on an item with an
\* empty field leaves the SelectBuilder unchanged: the ORDER BY / GROUP BY
\* text set before, the value list and every other slot are kept, and
\* build() returns the same text as it would have before the call.
C29_FailedClauseLeavesBuilder ==
    [][ (stmt = "select" /\ hist'.calls = hist.calls + 1 /\ hist'.err \in ClauseErrors) =>
            /\ sel' = sel
            /\ sel'.order_by_statement = sel.order_by_statement
            /\ sel'.group_by_statement = sel.group_by_statement
            /\ SelectBuilder_get_values(sel') = SelectBuilder_get_values(sel)
            /\ SelectBuilder_build(sel') = SelectBuilder_build(sel) ]_vars

\* order_by() succeeded, a later order_by() failed, and build() returned
\* the text with the first ORDER BY clause
C29_Witness ==
    /\ SelectBuilt /\ hist.calls = 2
    /\ hist.err = "order by field is empty"
    /\ sel.order_by_statement = Some(<<"ORDER", SP, "BY", SP, "t", ".", "a", SP, "ASC">>)
    /\ EndsWith(out.text, sel.order_by_statement.v)

\* a step that is a SelectBuilder::join call, a SelectBuilder::filter call
JoinStep == stmt = "select" /\ hist'.clauses = hist.clauses + 1 /\ hist'.filter = hist.filter
FilterStep == stmt = "select" /\ hist'.filter = hist.filter + 1

\* the opening of the clause every join() call of the model adds
JoinOpening == <<"LEFT", SP, "JOIN", SP, "products", SP, "as", SP, "p", SP, "ON", SP>>

\* the part of sequence new after its first n entries
After(new, n) == SubSeq(new, n + 1, Len(new))

\* C30: a join() call with a non-empty Expression list puts its one clause
\* "LEFT JOIN products as p ON ..." after the join clauses already there,
\* one space apart, and its values after the values already there, and
\* touches no other slot; a join() call and a filter() call with an empty
\* list leave the builder as it was.
C30_JoinsFollowCallOrder ==
    [][ /\ stmt = "select" =>
              /\ SelectBuilder_join(sel, "Left", "products", "p", <<>>) = sel
              /\ SelectBuilder_filter(sel, <<>>) = sel
        /\ FilterStep => (sel' = sel \/ Len(sel'.values) > Len(sel.values))
        /\ (JoinStep /\ ghost'.join = ghost.join) => sel' = sel
        /\ (JoinStep /\ ghost'.join # ghost.join) =>
              LET old == sel.join_statement
                  new == sel'.join_statement.v
                  added == After(new, IF old.some THEN Len(old.v) + 1 ELSE 0)
              IN  /\ sel'.join_statement.some
                  /\ old.some => SubSeq(new, 1, Len(old.v) + 1) = old.v \o <<SP>>
                  /\ SubSeq(added, 1, Len(JoinOpening)) = JoinOpening
                  /\ CountTok(added, "JOIN") = 1
                  /\ SubSeq(sel'.values, 1, Len(sel.values)) = sel.values
                  /\ Len(sel'.values) > Len(sel.values)
                  /\ ghost'.plain =>
                        After(sel'.values, Len(sel.values)) = After(ghost'.join, Len(ghost.join))
                  /\ [sel' EXCEPT !.join_statement = old, !.values = sel.values] = sel ]_vars

\* two join() calls, the first with the literal 10 and the second with the
\* range 20..30: the text has the two clauses and the values in call order
C30_Witness ==
    /\ stmt = "select" /\ hist.calls = 2 /\ hist.clauses = 2 /\ hist.filter = 0
    /\ sel.join_statement.some
    /\ CountTok(sel.join_statement.v, "JOIN") = 2
    /\ FindFrom(sel.join_statement.v, <<"=">>, 1) > 0
    /\ FindFrom(sel.join_statement.v, <<"=">>, 1)
          < FindFrom(sel.join_statement.v, <<"BETWEEN">>, 1)
    /\ SelectBuilder_get_values(sel) = <<"10", "20", "30">>

\* ------------------------- specification: one ORDER BY / GROUP BY clause
Aliases == {"None", "t"}
Fields == {"", "a", "b"}
Sequences == {"Asc", "Desc"}

OrderByPool == {OrderByItem(a, f, q) : a \in Aliases, f \in Fields, q \in Sequences}
GroupByPool == {GroupByItem(a, f) : a \in Aliases, f \in Fields}

InitClause ==
    /\ \/ order_items \in ListsUpTo(OrderByPool, MaxItems) /\ group_items = <<>>
       \/ order_items = <<>> /\ group_items \in ListsUpTo(GroupByPool, MaxItems)
    /\ order_by = NoOut /\ group_by = NoOut
    /\ IdleExpr /\ IdleGroup /\ IdleStmt /\ IdleSet

BuildOrderBy ==
    /\ order_by = NoOut
    /\ order_by' = OrderByBuilder_build(order_items)
    /\ UNCHANGED <<exprVars, groupVars, setVars, stmtVars, order_items, group_items, group_by>>

BuildGroupBy ==
    /\ group_by = NoOut
    /\ group_by' = GroupByBuilder_build(group_items)
    /\ UNCHANGED <<exprVars, groupVars, setVars, stmtVars, order_items, group_items, order_by>>

NextClause == BuildOrderBy \/ BuildGroupBy

SpecClause == InitClause /\ [][NextClause]_vars

\* the builders have returned
OrderBuilt == order_by # NoOut
GroupBuilt == group_by # NoOut

\* a list that is not empty and has no item with an empty field
AllFieldsSet(values) == values # <<>> /\ \A i \in 1..Len(values) : values[i].field # ""

\* C19: OrderByBuilder::build and GroupByBuilder::build return an error when
\* the item list is empty and when an item at any position has an empty
\* field, and succeed otherwise.
C19_EmptyListOrFieldRejected ==
    /\ OrderBuilt => (order_by.ok <=> AllFieldsSet(order_items))
    /\ GroupBuilt => (group_by.ok <=> AllFieldsSet(group_items))

C19_Witness ==
    /\ OrderBuilt /\ ~order_by.ok
    /\ Len(order_items) = 3
    /\ order_items[1].field # "" /\ order_items[2].field # ""
    /\ order_items[3].field = ""
    /\ order_by.err = "order by field is empty"

\* the fragments of frags from position i on that do not occur before
\* their position
RECURSIVE FirstOccurrences(_, _)
FirstOccurrences(frags, i) ==
    IF i > Len(frags) THEN <<>>
    ELSE (IF \A j \in 1..(i - 1) : frags[j] # frags[i] THEN <<frags[i]>> ELSE <<>>)
             \o FirstOccurrences(frags, i + 1)

OrderByFragments == [i \in 1..Len(order_items) |-> OrderByFragment(order_items[i])]
GroupByFragments == [i \in 1..Len(group_items) |-> GroupByFragment(group_items[i])]

\* C20: the text OrderByBuilder::build / GroupByBuilder::build returns
\* lists every distinct rendered fragment once, in the order of the first
\* occurrences in the input, separated by ", "; items with the same field
\* and another alias or direction render differently and are both kept.
C20_StableDedupByText ==
    /\ (OrderBuilt /\ order_by.ok) =>
          /\ order_by.text = <<"ORDER", SP, "BY", SP>>
                                \o JoinText(FirstOccurrences(OrderByFragments, 1), <<",", SP>>)
          /\ \A i \in 1..Len(order_items) : \A j \in 1..Len(order_items) :
                (/\ order_items[i].field = order_items[j].field
                 /\ \/ order_items[i].table_alias # order_items[j].table_alias
                    \/ order_items[i].sequence # order_items[j].sequence) =>
                    /\ Contains(order_by.text, OrderByFragments[i])
                    /\ Contains(order_by.text, OrderByFragments[j])
                    /\ OrderByFragments[i] # OrderByFragments[j]
    /\ (GroupBuilt /\ group_by.ok) =>
          /\ group_by.text = <<"GROUP", SP, "BY", SP>>
                                \o JoinText(FirstOccurrences(GroupByFragments, 1), <<",", SP>>)
          /\ \A i \in 1..Len(group_items) : \A j \in 1..Len(group_items) :
                (/\ group_items[i].field = group_items[j].field
                 /\ group_items[i].table_alias # group_items[j].table_alias) =>
                    GroupByFragments[i] # GroupByFragments[j]

C20_Witness ==
    /\ OrderBuilt /\ order_by.ok
    /\ Len(order_items) = 3
    /\ order_items[1] = OrderByItem("None", "a", "Asc")
    /\ order_items[2] = OrderByItem("None", "a", "Desc")
    /\ order_items[3] = order_items[1]
    /\ order_by.text = <<"ORDER", SP, "BY", SP, "a", SP, "ASC", ",", SP, "a", SP, "DESC">>

====
